---- MODULE Spec2Model ----
(***************************************************************************)
(* Model of the seedbox orchestration layer: the Replicate job poller      *)
(* (functions/_utils runReplicatePrediction), the adaptive image           *)
(* normalizer (server/index.js normalizeImageBuffer), the two              *)
(* /api/generate handlers that feed reference images to a provider, the    *)
(* other /api routes, normalizeOutputUrls, and resolveModelIdentifier      *)
(* with its module-level cache.                                            *)
(*                                                                         *)
(* Each behaviour runs one operation: Init picks which one is invoked and  *)
(* leaves the others "off".                                                *)
(***************************************************************************)
EXTENDS Integers, Sequences, FiniteSets, TLC

VARIABLES
    \* ---- runReplicatePrediction (one call) ----
    pollPc,          \* "off" | "init" | "loop" | "fetch" | "returned" | "thrown"
    replicateToken,  \* env.REPLICATE_API_TOKEN is configured
    prediction,      \* the submission response body
    pollingUrl,      \* let pollingUrl
    status,          \* let status
    responses,       \* every response body received so far, submission first
    checkTargets,    \* the URL of every status check issued, in order
    sleepLog,        \* the duration of every sleep() awaited, in order
    submits,         \* POST /v1/predictions requests issued
    pollReturn,      \* the value the call returned
    pollError,       \* the message of the error the call raised
    \* ---- normalizeImageBuffer (one call) ----
    normPc,             \* "off" | "start" | "encode" | "returned" | "thrown"
    maxImageDimension,  \* MAX_IMAGE_DIMENSION as read from the environment
    srcDecodable,       \* sharp can decode the buffer
    srcWidth,           \* metadata.width (0: absent)
    srcHeight,          \* metadata.height (0: absent)
    srcRotated,         \* the EXIF orientation swaps width and height
    targetWidth,        \* let targetWidth
    targetHeight,       \* let targetHeight
    quality,            \* let quality
    attempt,            \* the loop counter
    attemptLog,         \* <<width, height, quality>> of every encode so far
    outputLength,       \* outputBuffer.length of the latest encode
    outputWidth,        \* pixel width of the latest encode
    outputHeight,       \* pixel height of the latest encode
    contentType,        \* contentType of the returned result
    normError,          \* the message of the error the call raised
    srcIsOutput,        \* the buffer is the result of the call before
    \* ---- one POST /api/generate request ----
    genPc,           \* "off" | "received" | "files" | "normalizing" | "dispatch"
                     \* | "responded" | "rejected"
    runtime,         \* "express" (server/index.js) | "pages" (functions/api)
    provider,        \* the provider form field, lower-cased
    promptGiven,     \* the prompt field is not blank
    authorized,      \* the request carries a valid Supabase access token
    files,           \* file.size of every uploaded "images" entry
    fileIndex,       \* position of the for-of loop over files
    references,      \* the references array: bytes and origin of each payload
    bucketPuts,      \* objects written to UPLOADS_BUCKET
    providerCalled,  \* the provider the request was handed to, or "none"
    providerImages,  \* the image payloads handed to that provider
    httpStatus,      \* status of the response sent (0: none)
    \* ---- one request to another /api route ----
    apiPc,           \* "off" | "received" | "normalizing" | "responded"
    apiRuntime,      \* "express" (server/index.js) | "pages" (functions/api)
    apiRoute,        \* the route and method requested
    apiAuthorized,   \* the request carries a valid Supabase access token
    apiBodyOk,       \* the body has the field the route requires
    apiSourceBytes,  \* byte length of the remote image fetched (0: none)
    apiEffects,      \* outbound calls and storage operations made, in order
    apiStatus,       \* status of the response sent (0: none)
    apiError,        \* the error message of the response
    apiDataBytes,    \* byte length of the image in the response's dataUri
    grokElapsed,     \* ms since the pending call to the Grok API started
    \* ---- one call of normalizeOutputUrls ----
    urlsPc,          \* "off" | "call" | "done"
    urlsImpl,        \* "pages" (functions/_utils) | "server" (server/index.js)
    urlsInput,       \* the output argument, a JSON value
    urlsResult,      \* the array returned, a sequence of JSON values
    \* ---- resolveModelIdentifier and its cache ----
    cachedModelIdentifier,  \* let cachedModelIdentifier (Undefined: null)
    cachedModelSource,      \* let cachedModelSource (Undefined: null)
    resImpl,         \* "pages" (functions/_utils) | "server" (server/index.js)
    resStarted,      \* calls started so far
    cacheLog,        \* every write of the cache, in order
    resPc,           \* per call: "idle" | "model" | "versions" | "returned"
                     \* | "thrown"
    resSource,       \* per call: const source
    resSeen,         \* per call: writes made before the call tested the cache
    resFetches,      \* per call: lookups requested from the provider
    resWroteAt,      \* per call: position of its write in cacheLog (0: none)
    resResult,       \* per call: the identifier returned
    resError,        \* per call: the message of the error raised
    \* ---- the browser's reference images ----
    cliPc,           \* "off" | "ready" | "submitted"
    cliServer,       \* who answers /api: "express" | "pages"
    images,          \* const [images, setImages]: the files, in order
    characters,      \* const [characters, setCharacters]: their byte sizes
    errorMessage,    \* const [errorMessage, setErrorMessage]
    sentFiles,       \* the files of the form posted to /api/generate
    \* ---- two calls of normalizeImageBuffer on one buffer ----
    twinSource,      \* MAX_IMAGE_DIMENSION, metadata.width, metadata.height
    falPc,           \* "off" | "received" | "references" | "built" | "sent"
                     \* | "refused" | "failed"
    falFiles,        \* number of files uploaded with the request
    falSequential,   \* sequential_image_generation
    falMaxImages,    \* coerceNumber(max_images)
    falReferences,   \* the references, as the positions of their files
    falInput,        \* the input of the fal.ai request
    twinMime,        \* per call: the mimeType argument
    twinCall         \* per call: its position ("off" | "idle" | "encode" |
                     \* "returned" | "thrown"), locals, logs and outcome

normVars == <<normPc, maxImageDimension, srcDecodable, srcWidth, srcHeight,
              srcRotated, targetWidth, targetHeight, quality, attempt,
              attemptLog, outputLength, outputWidth, outputHeight,
              contentType, normError, srcIsOutput>>

pollVars == <<pollPc, replicateToken, prediction, pollingUrl, status, responses,
              checkTargets, sleepLog, submits, pollReturn, pollError>>

genVars == <<genPc, runtime, provider, promptGiven, authorized, files, fileIndex,
             references, bucketPuts, providerCalled, providerImages, httpStatus>>

apiVars == <<apiPc, apiRuntime, apiRoute, apiAuthorized, apiBodyOk,
             apiSourceBytes, apiEffects, apiStatus, apiError, apiDataBytes,
             grokElapsed>>

urlsVars == <<urlsPc, urlsImpl, urlsInput, urlsResult>>

resVars == <<cachedModelIdentifier, cachedModelSource, resImpl, resStarted,
             cacheLog, resPc, resSource, resSeen, resFetches, resWroteAt,
             resResult, resError>>

cliVars == <<cliPc, cliServer, images, characters, errorMessage, sentFiles>>

twinVars == <<twinSource, twinMime, twinCall>>

falVars == <<falPc, falFiles, falSequential, falMaxImages, falReferences,
             falInput>>

vars == <<pollVars, normVars, genVars, apiVars, urlsVars, resVars, cliVars, twinVars, falVars>>

----------------------------------------------------------------------------
(* JSON values as the provider sends them: a tagged record, so that values *)
(* of different JavaScript types can be compared.                          *)

JNull == [k |-> "null", v |-> 0]
JStr(s) == [k |-> "str", v |-> s]
JNum(n) == [k |-> "num", v |-> n]
JBool(b) == [k |-> "bool", v |-> b]
JArr(items) == [k |-> "arr", v |-> items]
JObj(fields) == [k |-> "obj", v |-> fields]

\* JavaScript undefined / absent for the string-typed fields of a response.
Undefined == "undefined"

\* JavaScript truthiness of a JSON value.
Truthy(j) ==
    CASE j.k = "null" -> FALSE
      [] j.k = "str" -> j.v # ""
      [] j.k = "num" -> j.v # 0
      [] j.k = "bool" -> j.v
      [] OTHER -> TRUE

\* obj.key for a JSON value: JNull stands for undefined.
Field(j, key) ==
    IF j.k = "obj" /\ key \in DOMAIN j.v THEN j.v[key] ELSE JNull

RECURSIVE normalizeOutputUrls(_)
RECURSIVE FlatMapUrls(_)

\* Faulty variant: the entries are visited right to left.
FlatMapUrls_RightToLeft(items) ==
    IF items = <<>> THEN <<>>
    ELSE FlatMapUrls(Tail(items)) \o normalizeOutputUrls(Head(items))

\* output.flatMap(normalizeOutputUrls)
FlatMapUrls(items) ==
    IF items = <<>> THEN <<>>
    ELSE normalizeOutputUrls(Head(items)) \o FlatMapUrls(Tail(items))

\* functions/_utils normalizeOutputUrls: the result is a sequence of JSON values.
normalizeOutputUrls(output) ==
    IF ~Truthy(output) THEN <<>>
    ELSE IF output.k = "arr" THEN FlatMapUrls(output.v)
    ELSE IF output.k = "str" THEN <<output>>
    ELSE IF output.k = "obj" THEN
        IF Truthy(Field(output, "url")) THEN <<Field(output, "url")>>
        ELSE IF Truthy(Field(output, "image_url")) THEN <<Field(output, "image_url")>>
        ELSE IF Truthy(Field(Field(output, "image"), "url"))
            THEN <<Field(Field(output, "image"), "url")>>
        ELSE IF Field(output, "images").k = "arr"
            THEN FlatMapUrls(Field(output, "images").v)
        ELSE IF Field(output, "output").k = "arr"
            THEN FlatMapUrls(Field(output, "output").v)
        ELSE <<>>
    ELSE <<>>

RECURSIVE normalizeOutputUrlsServer(_)
RECURSIVE FlatMapUrlsServer(_)

\* output.flatMap((entry) => normalizeOutputUrls(entry))
FlatMapUrlsServer(items) ==
    IF items = <<>> THEN <<>>
    ELSE normalizeOutputUrlsServer(Head(items))
            \o FlatMapUrlsServer(Tail(items))

\* server/index.js normalizeOutputUrls: the array-valued keys are tested
\* before the url keys.
normalizeOutputUrlsServer(output) ==
    IF ~Truthy(output) THEN <<>>
    ELSE IF output.k = "arr" THEN FlatMapUrlsServer(output.v)
    ELSE IF output.k = "str" THEN <<output>>
    ELSE IF Field(output, "images").k = "arr"
        THEN FlatMapUrlsServer(Field(output, "images").v)
    ELSE IF Field(output, "output").k = "arr"
        THEN FlatMapUrlsServer(Field(output, "output").v)
    ELSE IF Truthy(Field(output, "url")) THEN <<Field(output, "url")>>
    ELSE IF Truthy(Field(output, "image_url"))
        THEN <<Field(output, "image_url")>>
    ELSE IF Truthy(Field(Field(output, "image"), "url"))
        THEN <<Field(Field(output, "image"), "url")>>
    ELSE <<>>

----------------------------------------------------------------------------
(* normalizeImageBuffer (server/index.js).                                 *)

MAX_IMAGE_BYTES == 10 * 1024 * 1024
MAX_UPLOAD_SOURCE_BYTES == 40 * 1024 * 1024
MIN_IMAGE_DIMENSION == 256
DefaultMaxImageDimension == 2048
MaxAttempts == 8
InitialQuality == 90
QualityFloor == 50
QualityStep == 10
\* The message of the error thrown after the last attempt (line 764).
CompressionMessage == "Unable to compress image under 10MB"

\* Values MAX_IMAGE_DIMENSION is configured to: the default and a small one.
ConfiguredMaxDimensions == {128, DefaultMaxImageDimension}

\* metadata.width and metadata.height of the sources tried; 0 is "absent".
SourceWidths == {0, 200, 300, 6000}
SourceHeights == {0, 1, 200, 4000}

\* Byte lengths the encoder may produce on an attempt.
EncodedLengths ==
    {1024, MAX_IMAGE_BYTES, MAX_IMAGE_BYTES + 1, MAX_UPLOAD_SOURCE_BYTES + 1}

Min2(a, b) == IF a <= b THEN a ELSE b
Max2(a, b) == IF a >= b THEN a ELSE b
\* a || b on numbers
OrElse(a, b) == IF a = 0 THEN b ELSE a

\* metadata.width || MAX_IMAGE_DIMENSION
OriginalDim(metaDim, maxDim) == OrElse(metaDim, maxDim)

\* Math.floor(original * Math.min(maxDim / ow, maxDim / oh, 1)) || original
ScaledDim(original, ow, oh, maxDim) ==
    LET floored ==
            IF ow <= maxDim /\ oh <= maxDim THEN original
            ELSE IF ow >= oh THEN (original * maxDim) \div ow
            ELSE (original * maxDim) \div oh
    IN OrElse(floored, original)

\* Faulty variant: the floor is MIN_IMAGE_DIMENSION whatever the source.
MinimumDim_Fixed(original) == MIN_IMAGE_DIMENSION
\* Math.min(original, MIN_IMAGE_DIMENSION), then `|| MIN_IMAGE_DIMENSION`
MinimumDim(original) ==
    OrElse(Min2(original, MIN_IMAGE_DIMENSION), MIN_IMAGE_DIMENSION)

\* The target box before the first attempt.
InitialTarget(original, ow, oh, maxDim) ==
    Max2(Min2(ScaledDim(original, ow, oh, maxDim), maxDim), MinimumDim(original))

\* Faulty variant: the shrunk side is not raised to the floor.
ShrunkDim_NoFloor(target, original) == (target * 85) \div 100
\* Math.max(Math.floor(target * 0.85), minimum || MIN_IMAGE_DIMENSION)
ShrunkDim(target, original) ==
    Max2((target * 85) \div 100, MinimumDim(original))

\* Faulty variant: the budget test against the upload limit.
Fits_SourceLimit(length) == length <= MAX_UPLOAD_SOURCE_BYTES
\* outputBuffer.length <= MAX_IMAGE_BYTES
Fits(length) == length <= MAX_IMAGE_BYTES

\* Rounded quotient, at least 1 pixel.
RoundDiv(a, b) == Max2(1, (2 * a + b) \div (2 * b))

\* .rotate().resize({width, height, fit: "inside", withoutEnlargement: true}):
\* the displayed picture (w x h after auto-rotation) scaled to fit the box,
\* never enlarged.
ResizedWidth(w, h, boxW, boxH) ==
    IF w <= boxW /\ h <= boxH THEN w
    ELSE IF boxW * h <= boxH * w THEN boxW
    ELSE Min2(boxW, RoundDiv(w * boxH, h))
ResizedHeight(w, h, boxW, boxH) ==
    IF w <= boxW /\ h <= boxH THEN h
    ELSE IF boxW * h <= boxH * w THEN Min2(boxH, RoundDiv(h * boxW, w))
    ELSE boxH

\* Width and height of the picture as displayed, after .rotate().
DisplayedWidth(ow, oh, rotated) == IF rotated THEN oh ELSE ow
DisplayedHeight(ow, oh, rotated) == IF rotated THEN ow ELSE oh

originalWidth == OriginalDim(srcWidth, maxImageDimension)
originalHeight == OriginalDim(srcHeight, maxImageDimension)

NormIdle ==
    /\ srcDecodable = FALSE
    /\ srcWidth = 0
    /\ srcHeight = 0
    /\ srcRotated = FALSE
    /\ targetWidth = 0
    /\ targetHeight = 0
    /\ quality = 0
    /\ attempt = 0
    /\ attemptLog = <<>>
    /\ outputLength = 0
    /\ outputWidth = 0
    /\ outputHeight = 0
    /\ contentType = Undefined
    /\ normError = Undefined
    /\ srcIsOutput = FALSE

\* A call of normalizeImageBuffer(buffer, mimeType) on some buffer.
NormCall ==
    /\ normPc' = "start"
    /\ srcDecodable' \in BOOLEAN
    /\ srcWidth' \in SourceWidths
    /\ srcHeight' \in SourceHeights
    /\ srcRotated' \in BOOLEAN
    /\ targetWidth' = 0
    /\ targetHeight' = 0
    /\ quality' = 0
    /\ attempt' = 0
    /\ attemptLog' = <<>>
    /\ outputLength' = 0
    /\ outputWidth' = 0
    /\ outputHeight' = 0
    /\ contentType' = Undefined
    /\ normError' = Undefined
    /\ srcIsOutput' = FALSE
    /\ UNCHANGED maxImageDimension

\* The caller took the result: the call's locals are gone.
NormRelease ==
    /\ normPc' = "off"
    /\ srcDecodable' = FALSE
    /\ srcWidth' = 0
    /\ srcHeight' = 0
    /\ srcRotated' = FALSE
    /\ targetWidth' = 0
    /\ targetHeight' = 0
    /\ quality' = 0
    /\ attempt' = 0
    /\ attemptLog' = <<>>
    /\ outputLength' = 0
    /\ outputWidth' = 0
    /\ outputHeight' = 0
    /\ contentType' = Undefined
    /\ normError' = Undefined
    /\ srcIsOutput' = FALSE
    /\ UNCHANGED maxImageDimension

NormInit ==
    /\ normPc = "start"
    /\ maxImageDimension \in ConfiguredMaxDimensions
    /\ srcDecodable \in BOOLEAN
    /\ srcWidth \in SourceWidths
    /\ srcHeight \in SourceHeights
    /\ srcRotated \in BOOLEAN
    /\ targetWidth = 0
    /\ targetHeight = 0
    /\ quality = 0
    /\ attempt = 0
    /\ attemptLog = <<>>
    /\ outputLength = 0
    /\ outputWidth = 0
    /\ outputHeight = 0
    /\ contentType = Undefined
    /\ normError = Undefined
    /\ srcIsOutput = FALSE

NormOff ==
    /\ normPc = "off"
    /\ maxImageDimension = DefaultMaxImageDimension
    /\ NormIdle

\* normalizeImageBuffer is called again on the buffer it has just returned: a
\* WebP picture of the encoded size, without an EXIF orientation.
NormAgain ==
    /\ normPc = "returned"
    /\ ~srcIsOutput
    /\ genPc = "off"
    /\ apiPc = "off"
    /\ normPc' = "start"
    /\ srcIsOutput' = TRUE
    /\ srcDecodable' = TRUE
    /\ srcWidth' = outputWidth
    /\ srcHeight' = outputHeight
    /\ srcRotated' = FALSE
    /\ targetWidth' = 0
    /\ targetHeight' = 0
    /\ quality' = 0
    /\ attempt' = 0
    /\ attemptLog' = <<>>
    /\ outputLength' = 0
    /\ outputWidth' = 0
    /\ outputHeight' = 0
    /\ contentType' = Undefined
    /\ normError' = Undefined
    /\ UNCHANGED maxImageDimension

\* Faulty variant: the loop admits one attempt more.
AttemptsLeft_OneMore(n) == n <= MaxAttempts
\* for (let attempt = 0; attempt < 8; attempt += 1): the loop test.
AttemptsLeft(n) == n < MaxAttempts

\* sharp(buffer).metadata() and the target box (lines 708-731).
NormMetadata ==
    /\ normPc = "start"
    /\ IF ~srcDecodable
       THEN /\ normPc' = "thrown"
            /\ normError' = "Input buffer contains unsupported image format"
            /\ UNCHANGED <<targetWidth, targetHeight, quality>>
       ELSE /\ targetWidth' = InitialTarget(originalWidth, originalWidth,
                                            originalHeight, maxImageDimension)
            /\ targetHeight' = InitialTarget(originalHeight, originalWidth,
                                             originalHeight, maxImageDimension)
            /\ quality' = InitialQuality
            /\ normPc' = "encode"
            /\ UNCHANGED normError
    /\ UNCHANGED <<srcIsOutput, maxImageDimension, srcDecodable, srcWidth,
                   srcHeight, srcRotated, attempt, attemptLog, outputLength, outputWidth,
                   outputHeight, contentType>>

\* One iteration of the for loop: encode, test the budget, adjust.
NormAttempt ==
    /\ normPc = "encode"
    /\ AttemptsLeft(attempt)
    /\ \E length \in EncodedLengths :
        /\ outputLength' = length
        /\ outputWidth' = ResizedWidth(
                DisplayedWidth(originalWidth, originalHeight, srcRotated),
                DisplayedHeight(originalWidth, originalHeight, srcRotated),
                targetWidth, targetHeight)
        /\ outputHeight' = ResizedHeight(
                DisplayedWidth(originalWidth, originalHeight, srcRotated),
                DisplayedHeight(originalWidth, originalHeight, srcRotated),
                targetWidth, targetHeight)
        /\ attemptLog' = Append(attemptLog, <<targetWidth, targetHeight, quality>>)
        /\ IF Fits(length)
           THEN /\ normPc' = "returned"
                /\ contentType' = "image/webp"
                /\ UNCHANGED <<quality, targetWidth, targetHeight, attempt>>
           ELSE /\ IF quality > QualityFloor
                   THEN /\ quality' = Max2(QualityFloor, quality - QualityStep)
                        /\ UNCHANGED <<targetWidth, targetHeight>>
                   ELSE /\ targetWidth' = ShrunkDim(targetWidth, originalWidth)
                        /\ targetHeight' = ShrunkDim(targetHeight, originalHeight)
                        /\ UNCHANGED quality
                /\ attempt' = attempt + 1
                /\ UNCHANGED <<normPc, contentType>>
    /\ UNCHANGED <<srcIsOutput, maxImageDimension, srcDecodable, srcWidth,
                   srcHeight, srcRotated, normError>>

\* pipeline.toBuffer() rejects.
NormEncodeFails ==
    /\ normPc = "encode"
    /\ AttemptsLeft(attempt)
    /\ normPc' = "thrown"
    /\ normError' = "codec error"
    /\ UNCHANGED <<srcIsOutput, maxImageDimension, srcDecodable, srcWidth,
                   srcHeight, srcRotated, targetWidth, targetHeight, quality, attempt,
                   attemptLog, outputLength, outputWidth, outputHeight,
                   contentType>>

\* The loop ran out of attempts: line 764.
NormExhausted ==
    /\ normPc = "encode"
    /\ ~AttemptsLeft(attempt)
    /\ normPc' = "thrown"
    /\ normError' = CompressionMessage
    /\ UNCHANGED <<srcIsOutput, maxImageDimension, srcDecodable, srcWidth,
                   srcHeight, srcRotated, targetWidth, targetHeight, quality, attempt,
                   attemptLog, outputLength, outputWidth, outputHeight,
                   contentType>>

\* ---------------------------------------------------------------------------
\* Properties of normalizeImageBuffer.

NormDone == normPc \in {"returned", "thrown"}

\* C1: a finished call of normalizeImageBuffer has either returned a buffer of
\* at most MAX_IMAGE_BYTES (10 MiB) bytes or raised an error, whatever lengths
\* the encoder produced.
C1_ResultWithinByteBudget ==
    /\ normPc = "returned" =>
        /\ outputLength <= 10485760
        /\ normError = Undefined
        /\ attemptLog # <<>>
    /\ normPc = "thrown" => (normError # Undefined /\ contentType = Undefined)
C1_Witness ==
    /\ normPc = "returned"
    /\ Len(attemptLog) = 8
    /\ outputLength = 10485760

\* C6 (as claimed): for every configured MAX_IMAGE_DIMENSION a successful
\* result was encoded inside a box of at most MAX_IMAGE_DIMENSION on each side,
\* so neither side of the output exceeds MAX_IMAGE_DIMENSION.
C6_ResultWithinDimensionBudget ==
    normPc = "returned" =>
        /\ targetWidth <= maxImageDimension
        /\ targetHeight <= maxImageDimension
        /\ outputWidth <= maxImageDimension
        /\ outputHeight <= maxImageDimension

----------------------------------------------------------------------------
(* POST /api/generate: the Express handler (server/index.js) and the Pages *)
(* Functions handler (functions/api/generate.ts).                          *)

\* Uploaded files per request in the model.
MaxFiles == 2

MAX_REFERENCES_FOR_NANO == 4
MaxFalReferences == 10

\* file.size of the uploads tried: small, between the 10 MiB and 40 MiB
\* limits, above both.
FileSizes == {2048, MAX_IMAGE_BYTES + 1, MAX_UPLOAD_SOURCE_BYTES + 1}

FileLists == UNION {[1..n -> FileSizes] : n \in 0..MaxFiles}

Providers == {"replicate", "fal", "nano-banana"}
\* "dalle" stands for any provider value outside supportedProviders.
ProviderInputs == Providers \cup {"dalle"}

\* How the call to the provider ends.
ProviderOutcomes == {"ok", "error", "too_large"}

\* references.slice(0, n)
FirstN(seq, n) == SubSeq(seq, 1, Min2(n, Len(seq)))
\* references.slice(-n)
LastN(seq, n) == SubSeq(seq, Max2(1, Len(seq) - n + 1), Len(seq))

GenOff ==
    /\ genPc = "off"
    /\ runtime = "express"
    /\ provider = "replicate"
    /\ promptGiven = FALSE
    /\ authorized = FALSE
    /\ files = <<>>
    /\ fileIndex = 1
    /\ references = <<>>
    /\ bucketPuts = 0
    /\ providerCalled = "none"
    /\ providerImages = <<>>
    /\ httpStatus = 0

GenInit ==
    /\ genPc = "received"
    /\ runtime \in {"express", "pages"}
    /\ provider \in ProviderInputs
    /\ promptGiven \in BOOLEAN
    /\ authorized \in (IF runtime = "pages" THEN BOOLEAN ELSE {TRUE})
    /\ files \in FileLists
    /\ fileIndex = 1
    /\ references = <<>>
    /\ bucketPuts = 0
    /\ providerCalled = "none"
    /\ providerImages = <<>>
    /\ httpStatus = 0

\* res.status(code).json(...) / return error(message, code) / return ok(...)
Respond(code) ==
    /\ genPc' = "responded"
    /\ httpStatus' = code

\* The status of the response after the provider call ended with `outcome`.
ProviderStatus(outcome) ==
    IF outcome = "ok" THEN 200
    ELSE IF outcome = "too_large" THEN 413
    ELSE 500

\* The provider call: the payloads are handed over, then the response is sent;
\* or the branch throws before the call (a missing key, an unresolved model
\* version) and the catch answers 500.
CallProvider(name, refs) ==
    \/ /\ providerCalled' = name
       /\ providerImages' = refs
       /\ \E outcome \in ProviderOutcomes : Respond(ProviderStatus(outcome))
    \/ /\ Respond(500)
       /\ UNCHANGED <<providerCalled, providerImages>>

\* ---- Express: server/index.js ----

\* multer (limits.fileSize), then lines 1156-1189.
ExpressReceive ==
    /\ genPc = "received"
    /\ runtime = "express"
    /\ IF \E i \in 1..Len(files) : files[i] > MAX_UPLOAD_SOURCE_BYTES
       THEN Respond(500)
       ELSE IF provider \notin Providers THEN Respond(400)
       ELSE IF ~promptGiven THEN Respond(400)
       ELSE IF provider \in {"replicate", "fal"} /\ files = <<>> THEN Respond(400)
       ELSE /\ genPc' = "files"
            /\ UNCHANGED httpStatus
    /\ UNCHANGED <<runtime, provider, promptGiven, authorized, files, fileIndex,
                   references, bucketPuts, providerCalled, providerImages>>
    /\ UNCHANGED normVars

\* The next file of the loop: await normalizeImageBuffer(file.buffer, ...).
ExpressNormalizeCall ==
    /\ genPc = "files"
    /\ runtime = "express"
    /\ fileIndex <= Len(files)
    /\ NormCall
    /\ genPc' = "normalizing"
    /\ UNCHANGED <<runtime, provider, promptGiven, authorized, files, fileIndex,
                   references, bucketPuts, providerCalled, providerImages,
                   httpStatus>>

\* The reference pushed for a normalized file (lines 1211-1216).
ExpressReference(size, normalizedLength) ==
    [bytes |-> normalizedLength, normalized |-> TRUE]

\* normalizeImageBuffer returned: references.push(...).
ExpressNormalizeDone ==
    /\ genPc = "normalizing"
    /\ normPc = "returned"
    /\ references' = Append(references,
                            ExpressReference(files[fileIndex], outputLength))
    /\ fileIndex' = fileIndex + 1
    /\ genPc' = "files"
    /\ NormRelease
    /\ UNCHANGED <<runtime, provider, promptGiven, authorized, files, bucketPuts,
                   providerCalled, providerImages, httpStatus>>

\* normalizeImageBuffer threw: the handler throws compressionError (status
\* 413) from the for loop, before the try block of line 1234, so the async
\* handler's promise rejects and the catch of lines 1404-1412 is never run.
\* No error middleware is installed: an Express 4 router ignores the rejected
\* promise and no response is sent; an Express 5 router hands the error to
\* the default error handler, which answers with err.status.
ExpressNormalizeFailed ==
    /\ genPc = "normalizing"
    /\ normPc = "thrown"
    /\ \/ /\ genPc' = "rejected"
          /\ UNCHANGED httpStatus
       \/ Respond(413)
    /\ UNCHANGED <<runtime, provider, promptGiven, authorized, files, fileIndex,
                   references, bucketPuts, providerCalled, providerImages>>
    /\ UNCHANGED normVars

\* The loop is over: the provider branch of the try block.
ExpressDispatch ==
    /\ genPc = "files"
    /\ runtime = "express"
    /\ fileIndex > Len(files)
    /\ \/ /\ provider = "nano-banana"
          /\ CallProvider("nano-banana",
                          FirstN(references, MAX_REFERENCES_FOR_NANO))
       \/ /\ provider = "replicate"
          /\ CallProvider("replicate", references)
       \/ /\ provider = "fal"
          /\ CallProvider("fal", LastN(references, MaxFalReferences))
    /\ UNCHANGED <<runtime, provider, promptGiven, authorized, files, fileIndex,
                   references, bucketPuts>>
    /\ UNCHANGED normVars

\* ---- Pages Functions: functions/api/generate.ts ----

\* getUserFromRequest, then lines 119-164.
PagesReceive ==
    /\ genPc = "received"
    /\ runtime = "pages"
    /\ IF ~authorized THEN Respond(401)
       ELSE IF provider \notin Providers THEN Respond(400)
       ELSE IF ~promptGiven THEN Respond(400)
       ELSE IF provider # "nano-banana" /\ files = <<>> THEN Respond(400)
       ELSE /\ genPc' = "files"
            /\ UNCHANGED httpStatus
    /\ UNCHANGED <<runtime, provider, promptGiven, authorized, files, fileIndex,
                   references, bucketPuts, providerCalled, providerImages>>
    /\ UNCHANGED normVars

\* file.size > MAX_UPLOAD_SOURCE_BYTES
PagesTooLarge(size) == size > MAX_UPLOAD_SOURCE_BYTES

\* One iteration of the for-of loop (lines 173-198).
PagesFile ==
    /\ genPc = "files"
    /\ runtime = "pages"
    /\ fileIndex <= Len(files)
    /\ IF PagesTooLarge(files[fileIndex])
       THEN /\ Respond(413)
            /\ UNCHANGED <<fileIndex, references, bucketPuts>>
       ELSE \/ /\ bucketPuts' = bucketPuts + 1
               /\ references' = Append(references,
                        [bytes |-> files[fileIndex], normalized |-> FALSE])
               /\ fileIndex' = fileIndex + 1
               /\ UNCHANGED <<genPc, httpStatus>>
            \/ \* env.UPLOADS_BUCKET.put rejects: the outer catch answers 500
               /\ Respond(500)
               /\ UNCHANGED <<fileIndex, references, bucketPuts>>
    /\ UNCHANGED <<runtime, provider, promptGiven, authorized, files,
                   providerCalled, providerImages>>
    /\ UNCHANGED normVars

\* The loop is over: the provider branches (lines 214-320).
PagesDispatch ==
    /\ genPc = "files"
    /\ runtime = "pages"
    /\ fileIndex > Len(files)
    /\ \/ /\ provider = "nano-banana"
          /\ CallProvider("nano-banana",
                          FirstN(references, MAX_REFERENCES_FOR_NANO))
       \/ /\ provider = "fal"
          /\ Respond(501)
          /\ UNCHANGED <<providerCalled, providerImages>>
       \/ /\ provider = "replicate"
          /\ CallProvider("replicate", references)
    /\ UNCHANGED <<runtime, provider, promptGiven, authorized, files, fileIndex,
                   references, bucketPuts>>
    /\ UNCHANGED normVars

\* ---------------------------------------------------------------------------
\* Properties of /api/generate.

\* C5 (as claimed): every image payload handed to a provider, by the Express
\* handler and by the Pages Functions handler, is a buffer the Normalizer
\* returned, of at most MAX_IMAGE_BYTES bytes.
C5_ProviderGetsNormalizedImages ==
    \A i \in 1..Len(providerImages) :
        /\ providerImages[i].normalized
        /\ providerImages[i].bytes <= 10485760

----------------------------------------------------------------------------
(* The Replicate HTTP API as the poller sees it.                           *)

PollIntervalMs == 1500

\* Status checks one call may issue in the model.
MaxChecks == 3

KnownStatuses == {"starting", "processing", "succeeded", "failed", "canceled"}
\* "queued" stands for any status string outside the documented vocabulary.
Statuses == KnownStatuses \cup {"queued"}

PollingUrls == {"u1", "u2"}

ProviderErrorText == "NSFW content detected"

\* Values of a prediction's output field: absent, a bare string, a flat list,
\* a nested shape.
Outputs ==
    { JNull,
      JStr("d"),
      JArr(<<JStr("a"), JStr("b")>>),
      JObj([images |-> JArr(<<JObj([url |-> JStr("a")]), JStr("b")>>)]) }

HttpError == [ok |-> FALSE, status |-> Undefined, url |-> Undefined,
              output |-> JNull, error |-> Undefined]

\* fetch itself rejects (no connection, the request aborted): the rejection
\* passes through fetchReplicateJson, which has no catch.
FetchFailed == "fetch failed"
NetworkError == [ok |-> FALSE, status |-> Undefined, url |-> Undefined,
                 output |-> JNull, error |-> FetchFailed]

\* Bodies of 2xx responses: output matters only with succeeded, error only with
\* failed and canceled.
OkResponses ==
    [ok : {TRUE}, status : {"starting", "processing", "queued"},
     url : PollingUrls \cup {Undefined}, output : {JNull}, error : {Undefined}]
    \cup
    [ok : {TRUE}, status : {"succeeded"},
     url : {"u1", Undefined}, output : Outputs, error : {Undefined}]
    \cup
    [ok : {TRUE}, status : {"failed", "canceled"},
     url : {"u1", Undefined}, output : {JNull},
     error : {ProviderErrorText, Undefined}]

Responses == OkResponses \cup {HttpError, NetworkError}

\* a ?? b
Nullish(a, b) == IF a = JNull THEN b ELSE a
NullishText(a, b) == IF a = Undefined THEN b ELSE a

\* Faulty variant: the loop runs whenever there is a polling URL.
LoopGuard_NoStatusTest(url, st) == url # Undefined
\* Faulty variant: the loop gives up after two status checks.
LoopGuard_TwoChecks(url, st) ==
    /\ url # Undefined
    /\ st = "starting" \/ st = "processing"
    /\ Len(checkTargets) < 2
\* Faulty variant: the loop runs on every status that is not terminal.
LoopGuard_AnyNonTerminal(url, st) ==
    url # Undefined /\ st \notin {"succeeded", "failed", "canceled"}
\* while (pollingUrl && (status === "starting" || status === "processing"))
LoopGuard(url, st) ==
    url # Undefined /\ (st = "starting" \/ st = "processing")

PollInit ==
    /\ pollPc = "init"
    /\ replicateToken \in BOOLEAN
    /\ prediction = HttpError
    /\ pollingUrl = Undefined
    /\ status = Undefined
    /\ responses = <<>>
    /\ checkTargets = <<>>
    /\ sleepLog = <<>>
    /\ submits = 0
    /\ pollReturn = JNull
    /\ pollError = Undefined

PollOff ==
    /\ pollPc = "off"
    /\ replicateToken = FALSE
    /\ prediction = HttpError
    /\ pollingUrl = Undefined
    /\ status = Undefined
    /\ responses = <<>>
    /\ checkTargets = <<>>
    /\ sleepLog = <<>>
    /\ submits = 0
    /\ pollReturn = JNull
    /\ pollError = Undefined

\* The error fetchReplicateJson raises: fetch's own rejection, or the Error of
\* line 96 for a response that is not ok.
FetchError(resp) ==
    IF resp = NetworkError THEN FetchFailed ELSE "Replicate API error"

\* Faulty variant: the HTTP status of a response is not looked at.
ResponseOk_Unchecked(resp) == TRUE
\* fetchReplicateJson: response.ok
ResponseOk(resp) == resp.ok

\* throw from runReplicatePrediction
PollThrow(msg) ==
    /\ pollPc' = "thrown"
    /\ pollError' = msg
    /\ UNCHANGED pollReturn

\* return from runReplicatePrediction
PollReturn(value) ==
    /\ pollPc' = "returned"
    /\ pollReturn' = value
    /\ UNCHANGED pollError

\* fetchReplicateJson(POST /v1/predictions), then the two lets.
Submit ==
    /\ pollPc = "init"
    /\ IF ~replicateToken
       THEN /\ PollThrow("REPLICATE_API_TOKEN is not configured.")
            /\ UNCHANGED <<prediction, pollingUrl, status, responses, submits>>
       ELSE \E resp \in Responses :
            /\ submits' = submits + 1
            /\ responses' = Append(responses, resp)
            /\ IF ~ResponseOk(resp)
               THEN /\ PollThrow(FetchError(resp))
                    /\ UNCHANGED <<prediction, pollingUrl, status>>
               ELSE /\ prediction' = resp
                    /\ pollingUrl' = resp.url
                    /\ status' = resp.status
                    /\ pollPc' = "loop"
                    /\ UNCHANGED <<pollReturn, pollError>>
    /\ UNCHANGED <<replicateToken, checkTargets, sleepLog>>

\* Faulty variant: no sleep before the first status check.
Sleep_SkipFirst ==
    /\ pollPc = "loop"
    /\ LoopGuard(pollingUrl, status)
    /\ Len(checkTargets) < MaxChecks
    /\ sleepLog' = IF checkTargets = <<>> THEN sleepLog
                   ELSE Append(sleepLog, PollIntervalMs)
    /\ pollPc' = "fetch"
    /\ UNCHANGED <<replicateToken, prediction, pollingUrl, status, responses,
                   checkTargets, submits, pollReturn, pollError>>
\* The loop test holds: await sleep(1500).
Sleep ==
    /\ pollPc = "loop"
    /\ LoopGuard(pollingUrl, status)
    /\ Len(checkTargets) < MaxChecks
    /\ sleepLog' = Append(sleepLog, PollIntervalMs)
    /\ pollPc' = "fetch"
    /\ UNCHANGED <<replicateToken, prediction, pollingUrl, status, responses,
                   checkTargets, submits, pollReturn, pollError>>

\* Faulty variant: the output is flattened before it is returned.
LoopOutput_Flattened(latest) == JArr(normalizeOutputUrls(latest.output))
\* What the loop body returns on succeeded.
LoopOutput(latest) == Nullish(latest.output, JArr(<<>>))

\* What the code after the loop returns on succeeded.
SubmitOutput(pred) == Nullish(pred.output, JArr(<<>>))

\* The message thrown on failed / canceled inside the loop.
LoopFailure(latest) == NullishText(latest.error, "Replicate request failed")

\* Faulty variant: a response without a URL keeps the previous one.
NextPollingUrl_KeepOld(latest, current) ==
    IF latest.url = Undefined THEN current ELSE latest.url
\* pollingUrl = latest?.urls?.get
NextPollingUrl(latest, current) == latest.url

\* Faulty variant: the status of the latest response is not taken over.
LatestStatus_Stale(latest, current) == current
\* status = latest?.status
LatestStatus(latest, current) == latest.status

\* fetchReplicateJson(pollingUrl) and the rest of the loop body.
StatusCheck ==
    /\ pollPc = "fetch"
    /\ checkTargets' = Append(checkTargets, pollingUrl)
    /\ \E latest \in Responses :
        /\ responses' = Append(responses, latest)
        /\ IF ~ResponseOk(latest)
           THEN /\ PollThrow(FetchError(latest))
                /\ UNCHANGED <<pollingUrl, status>>
           ELSE /\ status' = LatestStatus(latest, status)
                /\ pollingUrl' = NextPollingUrl(latest, pollingUrl)
                /\ IF status' = "succeeded"
                   THEN PollReturn(LoopOutput(latest))
                   ELSE IF status' = "failed" \/ status' = "canceled"
                   THEN PollThrow(LoopFailure(latest))
                   ELSE /\ pollPc' = "loop"
                        /\ UNCHANGED <<pollReturn, pollError>>
    /\ UNCHANGED <<replicateToken, prediction, sleepLog, submits>>

\* Faulty variant: the code after the loop returns whatever the status.
AfterLoop_ReturnsAlways ==
    /\ pollPc = "loop"
    /\ ~LoopGuard(pollingUrl, status)
    /\ PollReturn(SubmitOutput(prediction))
    /\ UNCHANGED <<replicateToken, prediction, pollingUrl, status, responses,
                   checkTargets, sleepLog, submits>>
\* The loop test fails: the code after the loop.
AfterLoop ==
    /\ pollPc = "loop"
    /\ ~LoopGuard(pollingUrl, status)
    /\ IF status = "succeeded"
       THEN PollReturn(SubmitOutput(prediction))
       ELSE PollThrow("Replicate prediction did not complete successfully")
    /\ UNCHANGED <<replicateToken, prediction, pollingUrl, status, responses,
                   checkTargets, sleepLog, submits>>

----------------------------------------------------------------------------
(* Properties of runReplicatePrediction.                                   *)

PollDone == pollPc \in {"returned", "thrown"}
LastResponse == responses[Len(responses)]
Observed == [i \in 1..Len(responses) |-> responses[i].status]
DidNotComplete == "Replicate prediction did not complete successfully"

\* C2: the call returns an output only when the last status it observed is
\* "succeeded"; every other finished call has raised an error and returned
\* nothing.
C2_OutputOnlyWhenSucceeded ==
    /\ pollPc = "returned" =>
        /\ responses # <<>>
        /\ LastResponse.ok
        /\ LastResponse.status = "succeeded"
        /\ status = "succeeded"
    /\ (PollDone /\ (responses = <<>> \/ ~LastResponse.ok
                     \/ LastResponse.status # "succeeded")) =>
        /\ pollPc = "thrown"
        /\ pollError # Undefined
        /\ pollReturn = JNull
C2_Witness ==
    /\ pollPc = "returned"
    /\ Len(responses) >= 3
    /\ pollReturn = JStr("d")

\* C3 (as claimed): whenever the last response reports failed or canceled with
\* an error text, in the submission response or in a status check, the call
\* ends raising an error whose message is exactly that text.
C3_FailureCarriesProviderError ==
    (/\ PollDone
     /\ responses # <<>>
     /\ LastResponse.ok
     /\ LastResponse.status \in {"failed", "canceled"}
     /\ LastResponse.error # Undefined) =>
        /\ pollPc = "thrown"
        /\ pollError = LastResponse.error

\* C4 (as claimed): a status outside the documented vocabulary is non-terminal,
\* so the call never ends on one.
C4_UnknownStatusKeepsPolling ==
    (PollDone /\ responses # <<>> /\ LastResponse.ok) =>
        LastResponse.status \in KnownStatuses
\* C4 (amended): a status outside the documented vocabulary ends the polling:
\* the response carrying it is the last one received, no sleep follows it, and
\* the call raises the generic did-not-complete error.
C4_UnknownStatusStops ==
    \A i \in 1..Len(responses) :
        (responses[i].ok /\ responses[i].status \notin KnownStatuses) =>
            /\ i = Len(responses)
            /\ Len(sleepLog) = i - 1
            /\ Len(checkTargets) = i - 1
            /\ pollPc \in {"loop", "thrown"}
            /\ pollPc = "thrown" => pollError = DidNotComplete
C4_Witness ==
    /\ pollPc = "thrown"
    /\ Len(responses) >= 2
    /\ LastResponse.status = "queued"
    /\ LastResponse.url # Undefined
    /\ pollError = DidNotComplete

C8_MissingUrlKeepsPolling ==
    (/\ responses # <<>>
     /\ LastResponse.ok
     /\ LastResponse.status \in {"starting", "processing"}
     /\ LastResponse.url = Undefined) => ~PollDone
\* C8 (amended): every status check is sent to the polling location of the
\* response received just before it, and a response that supplies no polling
\* location is the last one: no status check follows it.
C8_ChecksFollowLatestUrl ==
    /\ \A i \in 1..Len(checkTargets) :
        /\ checkTargets[i] # Undefined
        /\ checkTargets[i] = responses[i].url
    /\ \A i \in 1..Len(responses) :
        (responses[i].ok /\ responses[i].url = Undefined) =>
            /\ i = Len(responses)
            /\ Len(checkTargets) = i - 1
            /\ Len(sleepLog) = i - 1
            /\ pollPc \in {"loop", "returned", "thrown"}
            /\ (PollDone /\ responses[i].status \in {"starting", "processing"}) =>
                (pollPc = "thrown" /\ pollError = DidNotComplete)
C8_Witness ==
    /\ Len(checkTargets) = 2
    /\ checkTargets[1] = "u1"
    /\ checkTargets[2] = "u2"
    /\ LastResponse.ok
    /\ LastResponse.status = "processing"
    /\ LastResponse.url = Undefined
    /\ pollPc = "thrown"

\* C9: when the submission response already has status "succeeded" the call
\* returns that response's output without sleeping and without any status
\* check.
C9_ImmediateSuccess ==
    (responses # <<>> /\ responses[1].ok /\ responses[1].status = "succeeded") =>
        /\ sleepLog = <<>>
        /\ checkTargets = <<>>
        /\ Len(responses) = 1
        /\ pollPc \in {"loop", "returned"}
        /\ pollPc = "returned" =>
            pollReturn = Nullish(responses[1].output, JArr(<<>>))
C9_Witness ==
    /\ pollPc = "returned"
    /\ Len(responses) = 1
    /\ responses[1].url = "u1"
    /\ pollReturn = JArr(<<JStr("a"), JStr("b")>>)
    /\ sleepLog = <<>>

\* C10: every sleep lasts the fixed 1.5 s, exactly one sleep precedes each
\* status check and there is no other sleep, so outside the gap between a
\* sleep and its check the two counts are equal; a job observed as processing,
\* processing, succeeded has slept exactly twice when the call returns.
C10_OneSleepPerCheck ==
    /\ \A i \in 1..Len(sleepLog) : sleepLog[i] = 1500
    /\ Len(sleepLog) = Len(checkTargets) + (IF pollPc = "fetch" THEN 1 ELSE 0)
    /\ (pollPc = "returned"
        /\ Observed = <<"processing", "processing", "succeeded">>) =>
            Len(sleepLog) = 2
C10_Witness ==
    /\ pollPc = "returned"
    /\ Observed = <<"processing", "processing", "succeeded">>
    /\ Len(sleepLog) = 2
    /\ Len(checkTargets) = 2

----------------------------------------------------------------------------
(* The other /api routes: the Pages Functions handlers demo-run, settings, *)
(* enhance-prompt, advanced-blueprints and import-image (functions/api),   *)
(* and the Express import-image handler (server/index.js).                 *)

MAX_REMOTE_IMPORT_SOURCE_BYTES == 80 * 1024 * 1024

PagesRoutes == {"demo-run", "settings-get", "settings-put", "enhance-prompt",
                "advanced-blueprints", "import-image"}

ExpressRoutes == {"enhance-prompt", "advanced-blueprints", "import-image"}

\* Byte length of the remote image: small, above the 10 MiB budget, above
\* the import limit.
RemoteSizes == {2048, MAX_IMAGE_BYTES + 1, MAX_REMOTE_IMPORT_SOURCE_BYTES + 1}

\* How the outbound call of a handler ends.
UpstreamOutcomes == {"ok", "http_error", "throws"}

ApiOff ==
    /\ apiPc = "off"
    /\ apiRuntime = "pages"
    /\ apiRoute = "demo-run"
    /\ apiAuthorized = FALSE
    /\ apiBodyOk = FALSE
    /\ apiSourceBytes = 0
    /\ apiEffects = <<>>
    /\ apiStatus = 0
    /\ apiError = Undefined
    /\ apiDataBytes = 0
    /\ grokElapsed = 0

ApiInit ==
    /\ apiPc = "received"
    /\ apiRuntime \in {"express", "pages"}
    /\ apiRoute \in (IF apiRuntime = "pages" THEN PagesRoutes
                                             ELSE ExpressRoutes)
    /\ apiAuthorized \in BOOLEAN
    /\ apiBodyOk \in BOOLEAN
    /\ apiSourceBytes = 0
    /\ apiEffects = <<>>
    /\ apiStatus = 0
    /\ apiError = Undefined
    /\ apiDataBytes = 0
    /\ grokElapsed = 0

\* return error(message, code) / res.status(code).json({ error: message })
ApiError(message, code) ==
    /\ apiPc' = "responded"
    /\ apiStatus' = code
    /\ apiError' = message

\* return ok(...) / res.json(...)
ApiOk ==
    /\ apiPc' = "responded"
    /\ apiStatus' = 200
    /\ apiError' = Undefined

\* getUserFromRequest(request, env) throws: the handler's catch answers with
\* err.status.
Unauthorized == ApiError("Unauthorized", 401)

\* functions/api/demo-run.ts
PagesDemoRun ==
    /\ apiPc = "received" /\ apiRuntime = "pages" /\ apiRoute = "demo-run"
    /\ IF ~apiAuthorized THEN Unauthorized /\ UNCHANGED apiEffects
       ELSE IF ~apiBodyOk
            THEN ApiError("Prompt is required", 400) /\ UNCHANGED apiEffects
       ELSE /\ apiEffects' = Append(apiEffects, "replicate")
            /\ \E outcome \in UpstreamOutcomes :
                IF outcome = "ok" THEN ApiOk
                ELSE ApiError("Unable to reach Replicate", 500)
    /\ UNCHANGED <<apiRuntime, apiRoute, apiAuthorized, apiBodyOk,
                   apiSourceBytes, apiDataBytes, grokElapsed>>

\* functions/api/settings.ts onRequestGet
PagesSettingsGet ==
    /\ apiPc = "received" /\ apiRuntime = "pages" /\ apiRoute = "settings-get"
    /\ IF ~apiAuthorized THEN Unauthorized /\ UNCHANGED apiEffects
       ELSE /\ apiEffects' = Append(apiEffects, "table-select")
            /\ \E outcome \in UpstreamOutcomes :
                IF outcome = "ok" THEN ApiOk
                ELSE ApiError("Unable to load user settings", 500)
    /\ UNCHANGED <<apiRuntime, apiRoute, apiAuthorized, apiBodyOk,
                   apiSourceBytes, apiDataBytes, grokElapsed>>

\* functions/api/settings.ts onRequestPut
PagesSettingsPut ==
    /\ apiPc = "received" /\ apiRuntime = "pages" /\ apiRoute = "settings-put"
    /\ IF ~apiAuthorized THEN Unauthorized /\ UNCHANGED apiEffects
       ELSE IF ~apiBodyOk
            THEN ApiError("Invalid request body", 400) /\ UNCHANGED apiEffects
       ELSE /\ apiEffects' = Append(apiEffects, "table-upsert")
            /\ \E outcome \in UpstreamOutcomes :
                IF outcome = "ok" THEN ApiOk
                ELSE ApiError("Unable to save user settings", 500)
    /\ UNCHANGED <<apiRuntime, apiRoute, apiAuthorized, apiBodyOk,
                   apiSourceBytes, apiDataBytes, grokElapsed>>

\* setTimeout(() => controller.abort(), 30000)
GrokTimeoutMs == 30000
\* Time passes in steps of a third of the timeout.
TickMs == GrokTimeoutMs \div 3

\* Faulty variant: the timer is armed but never aborts the request.
TimerDue_Never(elapsed) == FALSE
\* The timer of the call has run out.
TimerDue(elapsed) == elapsed >= GrokTimeoutMs

\* The call to the Grok API shared by enhance-prompt and advanced-blueprints:
\* ensureGrokConfig throws without a key, otherwise the timer is armed and
\* the request is sent with the controller's signal.
GrokCall ==
    \/ /\ ApiError("XAI_API_KEY is not configured.", 500)
       /\ UNCHANGED <<apiEffects, grokElapsed>>
    \/ /\ apiEffects' = Append(apiEffects, "grok")
       /\ apiPc' = "grok"
       /\ grokElapsed' = 0
       /\ UNCHANGED <<apiStatus, apiError>>

\* functions/api/enhance-prompt.ts, up to the await of fetch.
PagesEnhancePrompt ==
    /\ apiPc = "received" /\ apiRuntime = "pages"
    /\ apiRoute = "enhance-prompt"
    /\ IF ~apiBodyOk
       THEN /\ ApiError("Prompt is required", 400)
            /\ UNCHANGED <<apiEffects, grokElapsed>>
       ELSE GrokCall
    /\ UNCHANGED <<apiRuntime, apiRoute, apiAuthorized, apiBodyOk,
                   apiSourceBytes, apiDataBytes>>

\* functions/api/advanced-blueprints.ts, up to the await of fetch.
PagesAdvancedBlueprints ==
    /\ apiPc = "received" /\ apiRuntime = "pages"
    /\ apiRoute = "advanced-blueprints"
    /\ GrokCall
    /\ UNCHANGED <<apiRuntime, apiRoute, apiAuthorized, apiBodyOk,
                   apiSourceBytes, apiDataBytes>>

\* app.post("/api/enhance-prompt") -> enhancePromptWithGrok, up to the await
\* of fetch.
ExpressEnhancePrompt ==
    /\ apiPc = "received" /\ apiRuntime = "express"
    /\ apiRoute = "enhance-prompt"
    /\ IF ~apiBodyOk
       THEN /\ ApiError("Prompt is required", 400)
            /\ UNCHANGED <<apiEffects, grokElapsed>>
       ELSE GrokCall
    /\ UNCHANGED <<apiRuntime, apiRoute, apiAuthorized, apiBodyOk,
                   apiSourceBytes, apiDataBytes>>

\* app.post("/api/advanced-blueprints") -> generateBlueprints, up to the
\* await of fetch.
ExpressAdvancedBlueprints ==
    /\ apiPc = "received" /\ apiRuntime = "express"
    /\ apiRoute = "advanced-blueprints"
    /\ GrokCall
    /\ UNCHANGED <<apiRuntime, apiRoute, apiAuthorized, apiBodyOk,
                   apiSourceBytes, apiDataBytes>>

\* Time passes while the provider has not answered and the timer has not
\* yet run out.
GrokTick ==
    /\ apiPc = "grok"
    /\ ~TimerDue(grokElapsed)
    /\ grokElapsed' = grokElapsed + TickMs
    /\ UNCHANGED <<apiPc, apiRuntime, apiRoute, apiAuthorized, apiBodyOk,
                   apiSourceBytes, apiEffects, apiStatus, apiError,
                   apiDataBytes>>

\* The provider's answer has been read, or fetch rejected, before the timer
\* ran out: the finally clears the timer. A response that is not ok is
\* answered 502 by the Pages functions and thrown, hence 500, by Express.
GrokAnswers ==
    /\ apiPc = "grok"
    /\ ~TimerDue(grokElapsed)
    /\ \E outcome \in UpstreamOutcomes :
        IF outcome = "ok" THEN ApiOk
        ELSE IF outcome = "http_error"
        THEN ApiError("Grok API error",
                      IF apiRuntime = "pages" THEN 502 ELSE 500)
        ELSE ApiError("Grok request failed", 500)
    /\ UNCHANGED <<apiRuntime, apiRoute, apiAuthorized, apiBodyOk,
                   apiSourceBytes, apiEffects, apiDataBytes, grokElapsed>>

\* The timer fires: controller.abort() rejects the pending fetch (or the
\* pending read of the body) with an AbortError, which the handler's catch
\* answers with status 500; Express renames it "Grok API request timed out".
GrokTimeout ==
    /\ apiPc = "grok"
    /\ TimerDue(grokElapsed)
    /\ apiEffects' = Append(apiEffects, "abort")
    /\ ApiError(IF apiRuntime = "pages" THEN "The operation was aborted"
                ELSE "Grok API request timed out", 500)
    /\ UNCHANGED <<apiRuntime, apiRoute, apiAuthorized, apiBodyOk,
                   apiSourceBytes, apiDataBytes, grokElapsed>>

\* The common head of both import-image handlers, when it answers the
\* request itself: the url field is missing, the fetch throws, the status is
\* not 2xx, the content type is not an image, the body is above the limit.
ImportRejects ==
    /\ \/ /\ ~apiBodyOk
          /\ ApiError("Image URL is required", 400)
          /\ UNCHANGED <<apiEffects, apiSourceBytes>>
       \/ /\ apiBodyOk
          /\ apiEffects' = Append(apiEffects, "fetch")
          /\ \/ /\ ApiError("Unable to import remote image", 500)
                /\ UNCHANGED apiSourceBytes
             \/ /\ ApiError("Unable to fetch image", 400)
                /\ UNCHANGED apiSourceBytes
             \/ /\ ApiError("URL does not point to an image resource", 400)
                /\ UNCHANGED apiSourceBytes
             \/ \E bytes \in RemoteSizes :
                    /\ bytes > MAX_REMOTE_IMPORT_SOURCE_BYTES
                    /\ apiSourceBytes' = bytes
                    /\ ApiError("Remote image is too large to process", 413)
    /\ UNCHANGED apiDataBytes
    /\ UNCHANGED normVars

\* The head lets an image of `bytes` bytes through.
ImportAccepts(bytes) ==
    /\ apiBodyOk
    /\ bytes <= MAX_REMOTE_IMPORT_SOURCE_BYTES
    /\ apiSourceBytes' = bytes

\* functions/api/import-image.ts, lines 33-49: the bucket write and the
\* response carrying the fetched bytes.
PagesImportStore(bytes) ==
    /\ \/ /\ apiEffects' = apiEffects \o <<"fetch", "bucket-put">>
          /\ ApiOk
          /\ apiDataBytes' = bytes
       \/ \* env.UPLOADS_BUCKET.put rejects
          /\ apiEffects' = Append(apiEffects, "fetch")
          /\ ApiError("Unable to import remote image", 500)
          /\ UNCHANGED apiDataBytes
    /\ UNCHANGED normVars

\* functions/api/import-image.ts
PagesImportImage ==
    /\ apiPc = "received" /\ apiRuntime = "pages" /\ apiRoute = "import-image"
    /\ \/ ImportRejects
       \/ \E bytes \in RemoteSizes :
            ImportAccepts(bytes) /\ PagesImportStore(bytes)
    /\ UNCHANGED <<apiRuntime, apiRoute, apiAuthorized, apiBodyOk,
                   grokElapsed>>

\* server/index.js line 975: await normalizeImageBuffer(originalBuffer, ...)
ExpressImportNormalize(bytes) ==
    /\ apiEffects' = Append(apiEffects, "fetch")
    /\ apiPc' = "normalizing"
    /\ NormCall
    /\ UNCHANGED <<apiStatus, apiError, apiDataBytes>>

\* server/index.js lines 946-975
ExpressImportImage ==
    /\ apiPc = "received" /\ apiRuntime = "express"
    /\ apiRoute = "import-image"
    /\ \/ ImportRejects
       \/ \E bytes \in RemoteSizes :
            ImportAccepts(bytes) /\ ExpressImportNormalize(bytes)
    /\ UNCHANGED <<apiRuntime, apiRoute, apiAuthorized, apiBodyOk,
                   grokElapsed>>

\* normalizeImageBuffer returned: lines 983-992.
ExpressImportNormalized ==
    /\ apiPc = "normalizing"
    /\ normPc = "returned"
    /\ ApiOk
    /\ apiDataBytes' = outputLength
    /\ UNCHANGED <<apiRuntime, apiRoute, apiAuthorized, apiBodyOk,
                   apiSourceBytes, apiEffects, grokElapsed>>
    /\ UNCHANGED normVars

\* normalizeImageBuffer threw: the inner catch of lines 976-981, whatever the
\* error was.
ExpressImportNormalizeFailed ==
    /\ apiPc = "normalizing"
    /\ normPc = "thrown"
    /\ ApiError(CompressionMessage, 413)
    /\ UNCHANGED <<apiRuntime, apiRoute, apiAuthorized, apiBodyOk,
                   apiSourceBytes, apiEffects, apiDataBytes, grokElapsed>>
    /\ UNCHANGED normVars

\* ---------------------------------------------------------------------------
\* Properties of the request handlers.

\* C11 (as claimed): a buffer that cannot be decoded makes normalizeImageBuffer
\* fail at once, before any encode attempt, with an error other than the
\* over-budget one; the over-budget error is raised only after the last
\* attempt; and the caller of the import-image route can tell the two
\* failures apart: the response to an undecodable image is not the response
\* sent for an image that could not be compressed under the budget.
C11_FailuresToldApart ==
    /\ (normPc = "thrown" /\ ~srcDecodable) =>
            /\ attemptLog = <<>>
            /\ normError # CompressionMessage
    /\ (normPc = "thrown" /\ normError = CompressionMessage) =>
            Len(attemptLog) = MaxAttempts
    /\ (apiPc = "responded" /\ normPc = "thrown" /\ ~srcDecodable) =>
            apiError # CompressionMessage

\* C12 (as claimed): an Express /api/generate request whose uploaded file
\* failed normalization is over only once the client has been answered, and
\* the answer is HTTP 413.
C12_NormalizationFailureAnswered413 ==
    (runtime = "express" /\ normPc = "thrown"
     /\ genPc \in {"responded", "rejected"}) =>
        /\ genPc = "responded"
        /\ httpStatus = 413

\* C13 (as claimed): a request without a valid access token to any Pages
\* Functions route (generate, demo-run, settings, enhance-prompt,
\* advanced-blueprints, import-image) makes no provider call and no storage
\* write, and is answered 401.
C13_UnauthorizedRejectedFirst ==
    /\ (genPc # "off" /\ runtime = "pages" /\ ~authorized) =>
            /\ bucketPuts = 0
            /\ providerCalled = "none"
            /\ genPc = "responded" => httpStatus = 401
    /\ (apiPc # "off" /\ apiRuntime = "pages" /\ ~apiAuthorized) =>
            /\ apiEffects = <<>>
            /\ apiPc = "responded" => apiStatus = 401

----------------------------------------------------------------------------
(* One call of normalizeOutputUrls on a provider payload: the Pages        *)
(* Functions version (functions/_utils) or the Express one                 *)
(* (server/index.js).                                                      *)

\* Entries per array of a payload in the model.
MaxEntries == 2

\* The values found where a URL is expected.
UrlLeaves == {JStr("a"), JStr("b"), JStr(""), JNum(5), JNull, JBool(TRUE)}

\* {url}, {image_url}, {image: {url}}
UrlObjects ==
    {JObj([url |-> l]) : l \in UrlLeaves}
        \cup {JObj([image_url |-> l]) : l \in UrlLeaves}
        \cup {JObj([image |-> JObj([url |-> l])]) : l \in UrlLeaves}

UrlEntries == UrlLeaves \cup UrlObjects

UrlLists == UNION {[1..n -> UrlEntries] : n \in 0..MaxEntries}

\* Payloads carrying more than one of the recognised keys.
UrlMixed ==
    {JObj([url |-> JStr("a"), images |-> JArr(<<JStr("b")>>)]),
     JObj([image_url |-> JStr("a"), output |-> JArr(<<JStr("b")>>)]),
     JObj([images |-> JArr(<<JStr("a")>>), output |-> JArr(<<JStr("b")>>)])}

\* Arrays nested below an entry of an array.
UrlNested ==
    {JArr(<<JArr(<<JStr("a")>>), JStr("b")>>),
     JObj([output |-> JArr(<<JObj([images |->
                JArr(<<JObj([url |-> JStr("a")]), JStr("b")>>)])>>)])}

UrlInputs ==
    UrlEntries
        \cup {JArr(l) : l \in UrlLists}
        \cup {JObj([images |-> JArr(l)]) : l \in UrlLists}
        \cup {JObj([output |-> JArr(l)]) : l \in UrlLists}
        \cup UrlNested
        \cup UrlMixed

UrlsOff ==
    /\ urlsPc = "off"
    /\ urlsImpl = "pages"
    /\ urlsInput = JNull
    /\ urlsResult = <<>>

UrlsInit ==
    /\ urlsPc = "call"
    /\ urlsImpl \in {"pages", "server"}
    /\ urlsInput \in UrlInputs
    /\ urlsResult = <<>>

\* functions/_utils: return normalizeOutputUrls(output)
NormalizeUrlsPages ==
    /\ urlsPc = "call"
    /\ urlsImpl = "pages"
    /\ urlsResult' = normalizeOutputUrls(urlsInput)
    /\ urlsPc' = "done"
    /\ UNCHANGED <<urlsImpl, urlsInput>>

\* server/index.js: const outputUrls = normalizeOutputUrls(falData)
NormalizeUrlsServer ==
    /\ urlsPc = "call"
    /\ urlsImpl = "server"
    /\ urlsResult' = normalizeOutputUrlsServer(urlsInput)
    /\ urlsPc' = "done"
    /\ UNCHANGED <<urlsImpl, urlsInput>>

\* ---------------------------------------------------------------------------
\* Properties of normalizeOutputUrls.

UrlsDone == urlsPc = "done"

\* The value held where a URL is expected, when it is a non-empty string.
LeafOf(j) == IF j.k = "str" /\ j.v # "" THEN <<j>> ELSE <<>>

RECURSIVE StringLeaves(_)
RECURSIVE ListLeaves(_)

ListLeaves(items) ==
    IF items = <<>> THEN <<>>
    ELSE StringLeaves(Head(items)) \o ListLeaves(Tail(items))

\* The strings a payload contains, left to right: a string itself, the
\* strings under url, image_url and image.url, and those of the entries of
\* an array, of images and of output.
StringLeaves(j) ==
    IF j.k = "str" THEN LeafOf(j)
    ELSE IF j.k = "arr" THEN ListLeaves(j.v)
    ELSE IF j.k = "obj" THEN
        LeafOf(Field(j, "url"))
            \o LeafOf(Field(j, "image_url"))
            \o LeafOf(Field(Field(j, "image"), "url"))
            \o (IF Field(j, "images").k = "arr"
                THEN ListLeaves(Field(j, "images").v) ELSE <<>>)
            \o (IF Field(j, "output").k = "arr"
                THEN ListLeaves(Field(j, "output").v) ELSE <<>>)
    ELSE <<>>

RECURSIVE UrlFieldsAreStrings(_)

\* Every url, image_url and image.url of the payload is a string or absent.
UrlFieldsAreStrings(j) ==
    IF j.k = "arr"
    THEN \A i \in 1..Len(j.v) : UrlFieldsAreStrings(j.v[i])
    ELSE IF j.k = "obj"
    THEN /\ Field(j, "url").k \in {"str", "null"}
         /\ Field(j, "image_url").k \in {"str", "null"}
         /\ Field(Field(j, "image"), "url").k \in {"str", "null"}
         /\ UrlFieldsAreStrings(Field(j, "images"))
         /\ UrlFieldsAreStrings(Field(j, "output"))
    ELSE TRUE

C15_ResultHoldsOnlyStrings ==
    UrlsDone => \A i \in 1..Len(urlsResult) : urlsResult[i].k = "str"

\* ---------------------------------------------------------------------------
\* Properties of the attempt loop of normalizeImageBuffer.

\* C16: normalizeImageBuffer encodes at most 8 times and then ends: every
\* encode but the last was over budget, a call that returned did so on its
\* first fitting encode, the over-budget error is raised exactly after the
\* 8th over-budget encode, and a call inside the loop can always take a step.
C16_AtMostEightAttempts ==
    /\ Len(attemptLog) <= 8
    /\ attempt <= 8
    /\ normPc = "encode" =>
            /\ Len(attemptLog) = attempt
            /\ attempt > 0 => ~Fits(outputLength)
            /\ ENABLED NormAttempt \/ ENABLED NormExhausted
    /\ normPc = "returned" =>
            /\ Fits(outputLength)
            /\ Len(attemptLog) = attempt + 1
    /\ (normPc = "thrown" /\ normError = CompressionMessage) =>
            /\ Len(attemptLog) = 8
            /\ attempt = 8
            /\ ~Fits(outputLength)
C16_Witness ==
    /\ normPc = "thrown"
    /\ normError = CompressionMessage
    /\ Len(attemptLog) = 8

\* ---------------------------------------------------------------------------
\* Termination of runReplicatePrediction.

TerminalStatuses == {"succeeded", "failed", "canceled"}

\* The provider has answered every request so far, MaxChecks status checks
\* included, without reporting a terminal status.
NoTerminalStatusYet ==
    /\ Len(checkTargets) = MaxChecks
    /\ \A i \in 1..Len(responses) :
            /\ responses[i].ok
            /\ responses[i].status \notin TerminalStatuses

\* C17: every call of runReplicatePrediction whose awaited HTTP calls and
\* sleeps complete eventually returns or raises, unless the provider keeps
\* answering without ever reporting a terminal status.
C17_PollerTerminates ==
    (pollPc = "init") ~> (PollDone \/ NoTerminalStatusYet)
C17_Witness ==
    /\ PollDone
    /\ Len(checkTargets) = MaxChecks
    /\ LastResponse.ok
    /\ LastResponse.status \in TerminalStatuses

\* ---------------------------------------------------------------------------
\* A rejected submission.

\* C18: at most one submission request is ever sent, and when it is answered
\* with a non-success HTTP status the call has raised the provider-rejected
\* error "Replicate API error" without any sleep or status check and without
\* sending the submission again.
C18_RejectedSubmissionFailsAtOnce ==
    /\ submits <= 1
    /\ (responses # <<>> /\ responses[1] = HttpError) =>
            /\ pollPc = "thrown"
            /\ pollError = "Replicate API error"
            /\ submits = 1
            /\ Len(responses) = 1
            /\ checkTargets = <<>>
            /\ sleepLog = <<>>
C18_Witness ==
    /\ pollPc = "thrown"
    /\ responses = <<HttpError>>
    /\ submits = 1
    /\ checkTargets = <<>>

----------------------------------------------------------------------------
(* resolveModelIdentifier and its module-level cache: calls of the Pages   *)
(* Functions version (functions/_utils) or of the Express one              *)
(* (server/index.js), interleaved at their awaits.                         *)

\* The call slots: two calls can be in flight at once.
Calls == {1, 2}

\* Calls started per behaviour in the model.
MaxResolveCalls == 3

\* The configured model: two slugs, a pinned owner/name:version, and a value
\* that is not a slug.
Sources == {"bytedance/seedream-4", "acme/sd", "bytedance/seedream-4:v9",
            "seedream"}

VersionIds == {"v1", "v2"}

\* What a lookup yields: a version id, a body without one, or a failed call.
LookupResults == VersionIds \cup {Undefined, "http_error"}

\* source.includes(":")
Pinned(source) == source = "bytedance/seedream-4:v9"

\* const [owner, name] = source.split("/"): both parts are present.
ValidSlug(source) == source \in {"bytedance/seedream-4", "acme/sd"}

\* Faulty variant: the slug is cached in place of the resolved version.
Identifier_Slug(impl, source, versionId) == source
\* The identifier cached and returned for a resolved version: the version id
\* (functions/_utils line 130), `${owner}/${name}:${versionId}`
\* (server/index.js line 678).
Identifier(impl, source, versionId) ==
    IF impl = "pages" THEN versionId ELSE source \o ":" \o versionId

\* Faulty variant: the cache is never consulted.
CacheHit_Never(source) == FALSE
\* Faulty variant: the cached source is not compared.
CacheHit_AnySource(source) == cachedModelIdentifier # Undefined
\* if (cachedModelIdentifier && cachedModelSource === source)
CacheHit(source) ==
    cachedModelIdentifier # Undefined /\ cachedModelSource = source

ResOff ==
    /\ resImpl = "pages"
    /\ resStarted = MaxResolveCalls
    /\ cachedModelIdentifier = Undefined
    /\ cachedModelSource = Undefined
    /\ cacheLog = <<>>
    /\ resPc = [c \in Calls |-> "idle"]
    /\ resSource = [c \in Calls |-> Undefined]
    /\ resSeen = [c \in Calls |-> 0]
    /\ resFetches = [c \in Calls |-> 0]
    /\ resWroteAt = [c \in Calls |-> 0]
    /\ resResult = [c \in Calls |-> Undefined]
    /\ resError = [c \in Calls |-> Undefined]

ResInit ==
    /\ resImpl \in {"pages", "server"}
    /\ resStarted = 0
    /\ cachedModelIdentifier = Undefined
    /\ cachedModelSource = Undefined
    /\ cacheLog = <<>>
    /\ resPc = [c \in Calls |-> "idle"]
    /\ resSource = [c \in Calls |-> Undefined]
    /\ resSeen = [c \in Calls |-> 0]
    /\ resFetches = [c \in Calls |-> 0]
    /\ resWroteAt = [c \in Calls |-> 0]
    /\ resResult = [c \in Calls |-> Undefined]
    /\ resError = [c \in Calls |-> Undefined]

\* return from resolveModelIdentifier
ResReturn(c, value) ==
    /\ resPc' = [resPc EXCEPT ![c] = "returned"]
    /\ resResult' = [resResult EXCEPT ![c] = value]
    /\ resError' = [resError EXCEPT ![c] = Undefined]

\* throw from resolveModelIdentifier
ResThrow(c, msg) ==
    /\ resPc' = [resPc EXCEPT ![c] = "thrown"]
    /\ resResult' = [resResult EXCEPT ![c] = Undefined]
    /\ resError' = [resError EXCEPT ![c] = msg]

\* Faulty variant: the identifier is stored and the source is left as it was.
WriteCache_IdentifierOnly(c, source, value, seen) ==
    /\ cachedModelIdentifier' = value
    /\ UNCHANGED cachedModelSource
    /\ cacheLog' = Append(cacheLog, [source |-> source, identifier |-> value,
                                     seen |-> seen])
    /\ resWroteAt' = [resWroteAt EXCEPT ![c] = Len(cacheLog) + 1]
\* cachedModelIdentifier = value; cachedModelSource = source
WriteCache(c, source, value, seen) ==
    /\ cachedModelIdentifier' = value
    /\ cachedModelSource' = source
    /\ cacheLog' = Append(cacheLog, [source |-> source, identifier |-> value,
                                     seen |-> seen])
    /\ resWroteAt' = [resWroteAt EXCEPT ![c] = Len(cacheLog) + 1]

\* Faulty variant: a failure empties the cache.
FailureLeavesCache_Cleared ==
    /\ cachedModelIdentifier' = Undefined
    /\ cachedModelSource' = Undefined
    /\ UNCHANGED cacheLog
\* The paths that throw assign neither cache variable.
FailureLeavesCache ==
    UNCHANGED <<cachedModelIdentifier, cachedModelSource, cacheLog>>

\* The error of a failed lookup: fetchReplicateJson's own error, or the one
\* the catch of server/index.js lines 681-686 throws instead.
LookupError(impl, msg) ==
    IF impl = "pages" THEN msg ELSE "Seedream model version unavailable"

\* A call starts and runs to its first await: the cache test, the pinned
\* source, the slug test, the request for the model.
ResolveStart(c) ==
    /\ resPc[c] \in {"idle", "returned", "thrown"}
    /\ resStarted < MaxResolveCalls
    /\ resStarted' = resStarted + 1
    /\ \E source \in Sources :
        /\ resSource' = [resSource EXCEPT ![c] = source]
        /\ resSeen' = [resSeen EXCEPT ![c] = Len(cacheLog)]
        /\ IF CacheHit(source)
           THEN /\ ResReturn(c, cachedModelIdentifier)
                /\ resFetches' = [resFetches EXCEPT ![c] = 0]
                /\ resWroteAt' = [resWroteAt EXCEPT ![c] = 0]
                /\ UNCHANGED <<cachedModelIdentifier, cachedModelSource,
                               cacheLog>>
           ELSE IF Pinned(source)
           THEN /\ WriteCache(c, source, source, Len(cacheLog))
                /\ ResReturn(c, source)
                /\ resFetches' = [resFetches EXCEPT ![c] = 0]
           ELSE IF ~ValidSlug(source)
           THEN /\ ResThrow(c, "Invalid model slug")
                /\ resFetches' = [resFetches EXCEPT ![c] = 0]
                /\ resWroteAt' = [resWroteAt EXCEPT ![c] = 0]
                /\ FailureLeavesCache
           ELSE /\ resPc' = [resPc EXCEPT ![c] = "model"]
                /\ resFetches' = [resFetches EXCEPT ![c] = 1]
                /\ resWroteAt' = [resWroteAt EXCEPT ![c] = 0]
                /\ resResult' = [resResult EXCEPT ![c] = Undefined]
                /\ resError' = [resError EXCEPT ![c] = Undefined]
                /\ UNCHANGED <<cachedModelIdentifier, cachedModelSource,
                               cacheLog>>
    /\ UNCHANGED resImpl

\* The model request settles: model?.latest_version?.id.
ResolveModel(c) ==
    /\ resPc[c] = "model"
    /\ \E latest \in LookupResults :
        IF latest = "http_error"
        THEN /\ ResThrow(c, LookupError(resImpl, "Replicate API error"))
             /\ FailureLeavesCache
             /\ UNCHANGED <<resWroteAt, resFetches>>
        ELSE IF latest = Undefined
        THEN /\ resPc' = [resPc EXCEPT ![c] = "versions"]
             /\ resFetches' = [resFetches EXCEPT ![c] = 2]
             /\ UNCHANGED <<cachedModelIdentifier, cachedModelSource,
                            cacheLog, resWroteAt, resResult, resError>>
        ELSE /\ WriteCache(c, resSource[c],
                           Identifier(resImpl, resSource[c], latest),
                           resSeen[c])
             /\ ResReturn(c, Identifier(resImpl, resSource[c], latest))
             /\ UNCHANGED resFetches
    /\ UNCHANGED <<resImpl, resStarted, resSource, resSeen>>

\* The versions request settles: the id of the first listed version.
ResolveVersions(c) ==
    /\ resPc[c] = "versions"
    /\ \E first \in LookupResults :
        IF first = "http_error"
        THEN /\ ResThrow(c, LookupError(resImpl, "Replicate API error"))
             /\ FailureLeavesCache
             /\ UNCHANGED resWroteAt
        ELSE IF first = Undefined
        THEN /\ ResThrow(c, LookupError(resImpl,
                        "Unable to resolve Seedream-4 model version"))
             /\ FailureLeavesCache
             /\ UNCHANGED resWroteAt
        ELSE /\ WriteCache(c, resSource[c],
                           Identifier(resImpl, resSource[c], first),
                           resSeen[c])
             /\ ResReturn(c, Identifier(resImpl, resSource[c], first))
    /\ UNCHANGED <<resImpl, resStarted, resSource, resSeen, resFetches>>

ResolveStartAny == \E c \in Calls : ResolveStart(c)
ResolveModelAny == \E c \in Calls : ResolveModel(c)
ResolveVersionsAny == \E c \in Calls : ResolveVersions(c)

\* ---------------------------------------------------------------------------
\* Properties of the model-identifier cache.

\* C19 (as claimed): over any sequence or interleaving of calls the cache is
\* written at most once for each distinct configuration value.
C19_OneWritePerSource ==
    \A i, j \in 1..Len(cacheLog) :
        i # j => cacheLog[i].source # cacheLog[j].source

\* C19 (amended): a call writes the cache at most once, and only when the
\* cache did not hold its configuration value at the moment the call tested
\* it; the cache always shows the latest write.  Nothing else limits the
\* writes: calls that overlap, or a value that comes back after another one
\* displaced it, write the same value again.
C19_WriteOnlyAfterMiss ==
    /\ \A i \in 1..Len(cacheLog) :
            /\ cacheLog[i].seen < i
            /\ cacheLog[i].seen > 0 =>
                    cacheLog[cacheLog[i].seen].source # cacheLog[i].source
    /\ \A c \in Calls : resWroteAt[c] <= Len(cacheLog)
    /\ Len(cacheLog) <= resStarted
    /\ cacheLog # <<>> =>
            /\ cachedModelSource = cacheLog[Len(cacheLog)].source
            /\ cachedModelIdentifier = cacheLog[Len(cacheLog)].identifier
    /\ (resPc # [c \in Calls |-> "idle"] /\ cacheLog = <<>>) =>
            cachedModelIdentifier = Undefined
C19_Witness ==
    /\ Len(cacheLog) = 2
    /\ cacheLog[1].source = "bytedance/seedream-4"
    /\ cacheLog[2].source = "bytedance/seedream-4"
    /\ cacheLog[2].seen = 0

\* Two calls in flight for the same slug, each having found the cache empty.
\* (Both slots then hold the only calls that ever wrote.)
OverlappingFirstCalls ==
    /\ resSource[1] = resSource[2]
    /\ ValidSlug(resSource[1])
    /\ \A c \in Calls : resPc[c] # "idle" /\ resSeen[c] = 0 /\ resFetches[c] > 0

\* The identifiers a resolution of the source can yield.
ResolvedFor(source) ==
    IF resImpl = "pages" THEN VersionIds
    ELSE {source \o ":v1", source \o ":v2"}

\* C20: when two first-time calls for the same slug overlap, each sends its
\* own lookup to the provider; once both have returned, each has returned an
\* identifier resolved for that slug, both have written the cache, and the
\* cache holds the slug with the identifier of the later writer: the state
\* that call alone would have left.
C20_OverlappingCallsBothResolve ==
    OverlappingFirstCalls =>
        /\ \A c \in Calls : resFetches[c] >= 1
        /\ (\A c \in Calls : resPc[c] = "returned") =>
                /\ \A c \in Calls : resResult[c] \in ResolvedFor(resSource[c])
                /\ {resWroteAt[1], resWroteAt[2]} = {1, 2}
                /\ Len(cacheLog) = 2
                /\ cachedModelSource = resSource[1]
                /\ \E c \in Calls :
                        /\ resWroteAt[c] = 2
                        /\ cachedModelIdentifier = resResult[c]
C20_Witness ==
    /\ OverlappingFirstCalls
    /\ \A c \in Calls : resPc[c] = "returned"
    /\ resResult[1] # resResult[2]
    /\ cachedModelIdentifier = resResult[1]

\* ---------------------------------------------------------------------------
\* The target box of normalizeImageBuffer.

\* C21: normalizeImageBuffer never upscales: the box of every encode attempt,
\* and the box held between attempts, is no wider and no taller than the
\* source (originalWidth x originalHeight), and the encoded picture is no
\* larger than the picture displayed; a 200 x 200 source under the default
\* limit is first encoded in a 200 x 200 box.
C21_NeverUpscales ==
    /\ \A i \in 1..Len(attemptLog) :
            /\ attemptLog[i][1] <= originalWidth
            /\ attemptLog[i][2] <= originalHeight
    /\ normPc = "encode" =>
            /\ targetWidth <= originalWidth
            /\ targetHeight <= originalHeight
    /\ attemptLog # <<>> =>
            /\ outputWidth <= DisplayedWidth(originalWidth, originalHeight,
                                             srcRotated)
            /\ outputHeight <= DisplayedHeight(originalWidth, originalHeight,
                                               srcRotated)
    /\ (attemptLog # <<>> /\ srcWidth = 200 /\ srcHeight = 200
        /\ maxImageDimension = DefaultMaxImageDimension) =>
            attemptLog[1] = <<200, 200, 90>>
C21_Witness ==
    /\ normPc = "returned"
    /\ srcWidth = 200
    /\ srcHeight = 200
    /\ maxImageDimension = DefaultMaxImageDimension
    /\ attemptLog = <<<<200, 200, 90>>>>
    /\ outputWidth = 200
    /\ outputHeight = 200

\* C22: normalizeImageBuffer called on its own successful output ends with a
\* result of the pixel size of that output whose length is within
\* MAX_IMAGE_BYTES (a call the codec itself fails is left aside).
C22_IdempotentOnOwnOutput ==
    (srcIsOutput /\ NormDone /\ normError # "codec error") =>
        /\ normPc = "returned"
        /\ outputWidth = srcWidth
        /\ outputHeight = srcHeight
        /\ Fits(outputLength)
\* What the second call does keep: its first box is the size of the picture
\* it was given, and a result it returns is within MAX_IMAGE_BYTES.
SecondCallStartsAtSameSize ==
    (srcIsOutput /\ attemptLog # <<>>) =>
        /\ attemptLog[1] = <<srcWidth, srcHeight, InitialQuality>>
        /\ normPc = "returned" => Fits(outputLength)
        /\ (normPc = "returned" /\ Len(attemptLog) <= 5) =>
                outputWidth = srcWidth /\ outputHeight = srcHeight

\* ---------------------------------------------------------------------------
\* POST /api/import-image and the 10 MB limit.

\* C23: every successful answer of /api/import-image carries image data of at
\* most 10 MB, and a remote image that could not be brought under 10 MB is
\* answered with an error.
C23_ImportWithinTenMegabytes ==
    (apiPc = "responded" /\ apiRoute = "import-image") =>
        /\ apiStatus = 200 => apiDataBytes <= MAX_IMAGE_BYTES
        /\ (normPc = "thrown" /\ normError = CompressionMessage) =>
                apiStatus >= 400
\* The Express handler alone keeps the limit.
ExpressImportWithinTenMegabytes ==
    (apiPc = "responded" /\ apiRoute = "import-image"
     /\ apiRuntime = "express") =>
        /\ apiStatus = 200 => apiDataBytes <= MAX_IMAGE_BYTES
        /\ (normPc = "thrown" /\ normError = CompressionMessage) =>
                apiStatus = 413

\* ---------------------------------------------------------------------------
(* The browser's list of reference images (the App component): addFiles,    *)
(* handleSaveCharacter, handleUseCharacter, removeImage,                    *)
(* importResultAsReference, handleImportFromUrl and the submission to       *)
(* /api/generate. A file is its signature (name, byte size); the            *)
(* lastModified stamp is folded into the name.                              *)

MAX_FILE_SIZE == 10 * 1024 * 1024

\* The list holds at most this many files in the model.
MaxImages == 2

\* Byte sizes of the files a user picks or drops.
PickedSizes == {MAX_FILE_SIZE, MAX_FILE_SIZE + 1}
PickedFiles == [name : {"a.png"}, size : PickedSizes]
\* What one change or drop event carries.
PickedLists == {<<>>} \cup {<<f>> : f \in PickedFiles}
                \cup {<<f, g>> : f \in PickedFiles, g \in PickedFiles}
\* Byte sizes of the pictures a provider generated.
ResultSizes == {2048, MAX_FILE_SIZE + 1}

\* What a successful answer of POST /api/import-image carries for a remote
\* picture of the given size: the normalized picture from Express, the bytes
\* as they are from the Pages function; nothing when the answer is an error.
ImportedSizes(server, bytes) ==
    IF bytes > MAX_REMOTE_IMPORT_SOURCE_BYTES THEN {}
    ELSE IF server = "pages" THEN {bytes}
    ELSE {n \in EncodedLengths : Fits(n)}

\* file.size <= MAX_FILE_SIZE: the filter of addFiles.
SizeAccepted(file) == file.size <= MAX_FILE_SIZE

\* previous.some(existing => same name, size and lastModified)
InList(list, file) == \E i \in 1..Len(list) : list[i] = file

\* incoming files that pass the size filter and are not yet in the list, in
\* order. Like the code's filter against `previous`, it does not compare the
\* incoming files with one another.
Deduplicated(incoming, previous) ==
    SelectSeq(incoming, LAMBDA f : SizeAccepted(f) /\ ~InList(previous, f))

ClientOff ==
    /\ cliPc = "off"
    /\ cliServer = "express"
    /\ images = <<>>
    /\ characters = {}
    /\ errorMessage = Undefined
    /\ sentFiles = <<>>

ClientInit ==
    /\ cliPc = "ready"
    /\ cliServer \in {"express", "pages"}
    /\ images = <<>>
    /\ characters = {}
    /\ errorMessage = Undefined
    /\ sentFiles = <<>>

\* addFiles(fileList), lines 637-679.
AddFiles(incoming) ==
    /\ cliPc = "ready"
    /\ incoming # <<>>
    /\ LET rejected == \E i \in 1..Len(incoming) : ~SizeAccepted(incoming[i])
           sizeFiltered == SelectSeq(incoming, SizeAccepted)
           deduplicated == Deduplicated(incoming, images)
       IN  /\ Len(images) + Len(deduplicated) <= MaxImages
           /\ IF sizeFiltered = <<>> \/ deduplicated = <<>>
              THEN /\ errorMessage' =
                        IF rejected
                        THEN "Each reference image must be 10MB or smaller."
                        ELSE errorMessage
                   /\ UNCHANGED images
              ELSE /\ images' = images \o deduplicated
                   /\ errorMessage' = Undefined
    /\ UNCHANGED <<cliPc, cliServer, characters, sentFiles>>

\* handleFileChange: the file picker.
HandleFileChange == \E incoming \in PickedLists : AddFiles(incoming)

\* handleDrop: files dropped on the label.
HandleDrop == \E incoming \in PickedLists : AddFiles(incoming)

\* handleSaveCharacter(image): the file of a list entry is kept as a data URI
\* in the character library.
HandleSaveCharacter ==
    /\ cliPc = "ready"
    /\ \E i \in 1..Len(images) :
            characters' = characters \cup {images[i].size}
    /\ UNCHANGED <<cliPc, cliServer, images, errorMessage, sentFiles>>

\* handleUseCharacter(character): the data URI becomes a file again and is
\* appended unless a file of that signature is in the list.
HandleUseCharacter ==
    /\ cliPc = "ready"
    /\ Len(images) < MaxImages
    /\ \E bytes \in characters :
        LET file == [name |-> "character.png", size |-> bytes]
        IN  images' = IF InList(images, file) THEN images
                      ELSE Append(images, file)
    /\ UNCHANGED <<cliPc, cliServer, characters, errorMessage, sentFiles>>

\* removeImage(id)
RemoveImage ==
    /\ cliPc = "ready"
    /\ \E i \in 1..Len(images) :
            images' = SubSeq(images, 1, i - 1) \o
                      SubSeq(images, i + 1, Len(images))
    /\ UNCHANGED <<cliPc, cliServer, characters, errorMessage, sentFiles>>

\* importResultAsReference(result), lines 985-1027: the generated picture is
\* read from its data URI or fetched, and appended; a failed fetch is caught.
ImportResultAsReference ==
    /\ cliPc = "ready"
    /\ Len(images) < MaxImages
    /\ \/ \E bytes \in ResultSizes :
            LET file == [name |-> "output.png", size |-> bytes]
            IN  /\ images' = IF InList(images, file) THEN images
                             ELSE Append(images, file)
                /\ UNCHANGED errorMessage
       \/ /\ errorMessage' =
                "Unable to import generated image. Try downloading manually."
          /\ UNCHANGED images
    /\ UNCHANGED <<cliPc, cliServer, characters, sentFiles>>

\* handleImportFromUrl(), lines 1029-1072: the answer of POST
\* /api/import-image becomes a file and is appended; an error answer is shown.
HandleImportFromUrl ==
    /\ cliPc = "ready"
    /\ Len(images) < MaxImages
    /\ \E remote \in RemoteSizes :
        \/ \E bytes \in ImportedSizes(cliServer, remote) :
            LET file == [name |-> "remote-image", size |-> bytes]
            IN  /\ images' = IF InList(images, file) THEN images
                             ELSE Append(images, file)
                /\ UNCHANGED errorMessage
        \/ /\ errorMessage' = "Unable to import image"
           /\ UNCHANGED images
    /\ UNCHANGED <<cliPc, cliServer, characters, sentFiles>>

\* handleSubmit -> runGenerationForImages(images): every file of the list is
\* appended to the form posted to /api/generate. The model follows the
\* client up to its first submission.
RunGeneration ==
    /\ cliPc = "ready"
    /\ images # <<>>
    /\ cliPc' = "submitted"
    /\ sentFiles' = images
    /\ errorMessage' = Undefined
    /\ UNCHANGED <<cliServer, images, characters>>

\* C24: no file larger than 10 MB is in the client's list of reference
\* images, whichever way it was added, and none is sent to /api/generate.
C24_NoLargeFileInReferenceList ==
    /\ \A i \in 1..Len(images) : images[i].size <= MAX_FILE_SIZE
    /\ \A i \in 1..Len(sentFiles) : sentFiles[i].size <= MAX_FILE_SIZE
\* The part addFiles enforces: a picked or dropped file in the list is within
\* the limit.
PickedFilesWithinLimit ==
    \A i \in 1..Len(images) :
        images[i].name = "a.png" => images[i].size <= MAX_FILE_SIZE

\* ---------------------------------------------------------------------------
\* The order of the statuses the poller observes.

\* Positions of the responses that carried a status.
Answered == {i \in 1..Len(responses) : responses[i].ok}

\* C25: the statuses observed for one job are monotonic: a status that was
\* left is never observed again; only the same status may repeat.
C25_StatusNeverRevisited ==
    \A i \in Answered : \A k \in Answered :
        (i < k /\ Observed[i] = Observed[k]) =>
            \A j \in i..k : Observed[j] = Observed[i]
\* What the poller does guarantee: it asks again only after "starting" or
\* "processing", so every observation but the last is one of these two, in
\* whatever order the provider reports them, and nothing is observed after
\* any other status.
OnlyRunningStatusesAreLeft ==
    \A i \in 1..Len(responses) :
        i < Len(responses) =>
            /\ responses[i].ok
            /\ Observed[i] \in {"starting", "processing"}
\* The provider reports "starting" again after "processing" and the poller
\* carries on to the result.
StatusRevisited ==
    /\ pollPc = "returned"
    /\ Observed = <<"processing", "starting", "processing", "succeeded">>

\* ---------------------------------------------------------------------------
(* Two calls of normalizeImageBuffer on the same buffer under the same      *)
(* configuration, each with its own locals and its own codec answers.       *)

TwinCalls == {1, 2}

\* What the codec does at one encode: it fails, or it produces a buffer of
\* some length (within the budget, above it).
CodecAnswers == {[ok |-> FALSE, length |-> 0],
                 [ok |-> TRUE, length |-> MAX_IMAGE_BYTES],
                 [ok |-> TRUE, length |-> MAX_IMAGE_BYTES + 1]}

TwinIdle == [pc |-> "idle", targetWidth |-> 0, targetHeight |-> 0,
             quality |-> 0, attempt |-> 0, attemptLog |-> <<>>,
             codecLog |-> <<>>, outcome |-> Undefined]

\* Faulty variant: quality is a variable of the module, which a call finds as
\* the call running beside it left it.
StartQuality_Leftover(left) == IF left = 0 THEN InitialQuality ELSE left
\* let quality = 90 (line 730): a local of the call.
StartQuality(left) == InitialQuality

\* The type the caller declares for the buffer: file.mimetype of the upload,
\* the content-type header of the import.
DeclaredTypes == {"image/jpeg", "text/plain"}

\* Faulty variant: the result is labelled with the declared type.
ResultContentType_Declared(mimeType) == mimeType
\* return { buffer: outputBuffer, contentType: "image/webp" } (line 747)
ResultContentType(mimeType) == "image/webp"

TwinOff ==
    /\ twinSource = [maxDim |-> DefaultMaxImageDimension, width |-> 0,
                     height |-> 0]
    /\ twinMime = [c \in TwinCalls |-> "image/jpeg"]
    /\ twinCall = [c \in TwinCalls |-> [TwinIdle EXCEPT !.pc = "off"]]

TwinInit ==
    /\ twinSource \in [maxDim : ConfiguredMaxDimensions, width : SourceWidths,
                       height : SourceHeights]
    /\ twinMime \in [TwinCalls -> DeclaredTypes]
    /\ twinMime[1] = "image/jpeg"
    /\ twinCall = [c \in TwinCalls |-> TwinIdle]

TwinOriginalWidth == OriginalDim(twinSource.width, twinSource.maxDim)
TwinOriginalHeight == OriginalDim(twinSource.height, twinSource.maxDim)

\* Lines 708-731 of one call: metadata, the target box, quality.
TwinStart(c) ==
    /\ twinCall[c].pc = "idle"
    /\ twinCall' = [twinCall EXCEPT ![c] =
            [TwinIdle EXCEPT
                !.pc = "encode",
                !.targetWidth = InitialTarget(TwinOriginalWidth,
                                    TwinOriginalWidth, TwinOriginalHeight,
                                    twinSource.maxDim),
                !.targetHeight = InitialTarget(TwinOriginalHeight,
                                    TwinOriginalWidth, TwinOriginalHeight,
                                    twinSource.maxDim),
                !.quality = StartQuality(
                                twinCall[CHOOSE d \in TwinCalls : d # c]
                                    .quality)]]
    /\ UNCHANGED <<twinSource, twinMime>>

\* One iteration of the loop of one call (lines 733-762), and the throw of
\* line 764 when it was the last.
TwinAttempt(c) ==
    /\ twinCall[c].pc = "encode"
    /\ \E answer \in CodecAnswers :
        LET call == twinCall[c]
            logged == [call EXCEPT
                !.attemptLog = Append(call.attemptLog,
                    <<call.targetWidth, call.targetHeight, call.quality>>),
                !.codecLog = Append(call.codecLog, answer)]
            width == ResizedWidth(TwinOriginalWidth, TwinOriginalHeight,
                                  call.targetWidth, call.targetHeight)
            height == ResizedHeight(TwinOriginalWidth, TwinOriginalHeight,
                                    call.targetWidth, call.targetHeight)
            adjusted ==
                IF call.quality > QualityFloor
                THEN [logged EXCEPT
                        !.quality = Max2(QualityFloor,
                                         call.quality - QualityStep),
                        !.attempt = call.attempt + 1]
                ELSE [logged EXCEPT
                        !.targetWidth = ShrunkDim(call.targetWidth,
                                                  TwinOriginalWidth),
                        !.targetHeight = ShrunkDim(call.targetHeight,
                                                   TwinOriginalHeight),
                        !.attempt = call.attempt + 1]
        IN  twinCall' = [twinCall EXCEPT ![c] =
                IF ~answer.ok
                THEN [logged EXCEPT !.pc = "thrown",
                                    !.outcome = "codec error"]
                ELSE IF Fits(answer.length)
                THEN [logged EXCEPT
                        !.pc = "returned",
                        !.outcome = <<width, height, answer.length,
                                      ResultContentType(twinMime[c])>>]
                ELSE IF AttemptsLeft(adjusted.attempt)
                THEN adjusted
                ELSE [adjusted EXCEPT !.pc = "thrown",
                                      !.outcome = CompressionMessage]]
    /\ UNCHANGED <<twinSource, twinMime>>

TwinStartAny == \E c \in TwinCalls : TwinStart(c)
TwinAttemptAny == \E c \in TwinCalls : TwinAttempt(c)

IsPrefix(s, t) == Len(s) <= Len(t) /\ SubSeq(t, 1, Len(s)) = s

\* C26: normalizeImageBuffer is deterministic: of two calls on the same
\* buffer and configuration, the one the codec has answered a prefix of what
\* it answered the other has made a prefix of the other's (width, height,
\* quality) attempts; after the same codec answers the two calls have made
\* the same attempts, hold the same box and quality, and have ended, or not,
\* in the same outcome.
C26_SameAttemptsSameOutcome ==
    \A c \in TwinCalls : \A d \in TwinCalls :
        (twinCall[c].pc \notin {"off", "idle"}
         /\ twinCall[d].pc \notin {"off", "idle"}) =>
            /\ IsPrefix(twinCall[c].codecLog, twinCall[d].codecLog) =>
                    IsPrefix(twinCall[c].attemptLog, twinCall[d].attemptLog)
            /\ twinCall[c].codecLog = twinCall[d].codecLog =>
                    twinCall[c] = twinCall[d]
C26_Witness ==
    /\ twinCall[1].pc = "returned"
    /\ twinCall[2].pc = "returned"
    /\ Len(twinCall[1].codecLog) = 7
    /\ twinCall[1].codecLog = twinCall[2].codecLog
    /\ twinCall[1].attemptLog = twinCall[2].attemptLog
    /\ twinCall[1].attemptLog[7][1] < twinCall[1].attemptLog[1][1]
    /\ twinCall[1].outcome = twinCall[2].outcome

\* ---------------------------------------------------------------------------
\* The quality ladder of normalizeImageBuffer.


\* C27 as stated: the first attempt uses quality 90; after an over-budget
\* attempt quality drops by 10 while it is above 50, the box unchanged; once
\* quality is 50 the width and the height are each multiplied by 0.85 and
\* floored while quality stays 50; quality is never below 50 and never rises.
C27_QualityLadderThenShrink ==
    /\ attemptLog # <<>> => attemptLog[1][3] = 90
    /\ \A i \in 1..Len(attemptLog) : attemptLog[i][3] >= 50
    /\ \A i \in 1..(Len(attemptLog) - 1) :
        LET this == attemptLog[i]
            next == attemptLog[i + 1]
        IN  IF this[3] > 50
            THEN next = <<this[1], this[2], this[3] - 10>>
            ELSE next = <<(this[1] * 85) \div 100, (this[2] * 85) \div 100, 50>>
\* C27, amended: as above, but a shrunk side is never taken below
\* min(original side, MIN_IMAGE_DIMENSION): it is the larger of the floored
\* 0.85 multiple and that floor.
C27_QualityLadderThenClampedShrink ==
    /\ attemptLog # <<>> => attemptLog[1][3] = 90
    /\ \A i \in 1..Len(attemptLog) : attemptLog[i][3] >= 50
    /\ \A i \in 1..(Len(attemptLog) - 1) :
        LET this == attemptLog[i]
            next == attemptLog[i + 1]
        IN  IF this[3] > 50
            THEN next = <<this[1], this[2], this[3] - 10>>
            ELSE next =
                <<Max2((this[1] * 85) \div 100,
                       Min2(originalWidth, MIN_IMAGE_DIMENSION)),
                  Max2((this[2] * 85) \div 100,
                       Min2(originalHeight, MIN_IMAGE_DIMENSION)),
                  50>>
C27_Witness ==
    /\ normPc = "thrown"
    /\ normError = CompressionMessage
    /\ srcWidth = 6000
    /\ srcHeight = 200
    /\ maxImageDimension = DefaultMaxImageDimension
    /\ attemptLog = <<<<2048, 200, 90>>, <<2048, 200, 80>>, <<2048, 200, 70>>,
                      <<2048, 200, 60>>, <<2048, 200, 50>>, <<1740, 200, 50>>,
                      <<1479, 200, 50>>, <<1257, 200, 50>>>>

\* ---------------------------------------------------------------------------
\* The pace of the polling loop.

\* The job is still running as far as the poller knows, and the provider gave
\* it a place to ask.
StillRunning ==
    /\ pollPc = "loop"
    /\ pollingUrl # Undefined
    /\ status \in {"starting", "processing"}

\* C28: the loop has no maximum number of attempts and no backoff: from the
\* head of the loop with a running job the only step of the poller is a sleep
\* of PollIntervalMs followed by a status check, however many checks it has
\* made; it neither returns nor raises there, and the sleep is never longer.
C28_SamePaceWithoutLimit ==
    [][StillRunning =>
            /\ pollPc' = "fetch"
            /\ sleepLog' = Append(sleepLog, PollIntervalMs)
            /\ pollingUrl' = pollingUrl]_vars
\* Every check so far was preceded by one sleep of PollIntervalMs.
EverySleepTheSame ==
    /\ \A i \in 1..Len(sleepLog) : sleepLog[i] = PollIntervalMs
    /\ Len(sleepLog) = Len(checkTargets) + (IF pollPc = "fetch" THEN 1 ELSE 0)
C28_Witness ==
    /\ StillRunning
    /\ Len(checkTargets) = MaxChecks
    /\ sleepLog = [i \in 1..MaxChecks |-> PollIntervalMs]
    /\ \A i \in 1..Len(responses) : Observed[i] = "processing"

\* ---------------------------------------------------------------------------
\* A failed status check.

\* C29: a status check that fails, by a network error or by a non-success
\* HTTP status, is not retried: it is the last request of the call, which has
\* raised the error of that check and returned nothing.
C29_FailedCheckNotRetried ==
    \A i \in 2..Len(responses) :
        ~responses[i].ok =>
            /\ i = Len(responses)
            /\ Len(checkTargets) = i - 1
            /\ pollPc = "thrown"
            /\ pollError = FetchError(responses[i])
            /\ pollReturn = JNull
C29_Witness ==
    /\ pollPc = "thrown"
    /\ Len(responses) = 3
    /\ responses[2].ok
    /\ responses[3] = NetworkError
    /\ pollError = FetchFailed
    /\ Len(checkTargets) = 2
FailedCheckByHttpStatus ==
    /\ pollPc = "thrown"
    /\ Len(responses) = 3
    /\ responses[3] = HttpError
    /\ pollError = "Replicate API error"

\* ---------------------------------------------------------------------------
\* The bounds of the target box.

\* C30: at every encode attempt, also after each 0.85 shrink, the target
\* width is at least min(originalWidth, MIN_IMAGE_DIMENSION), the target
\* height at least min(originalHeight, MIN_IMAGE_DIMENSION), and neither is
\* above MAX_IMAGE_DIMENSION.
C30_BoxBetweenFloorAndLimit ==
    \A i \in 1..Len(attemptLog) :
        /\ attemptLog[i][1] >= Min2(originalWidth, MIN_IMAGE_DIMENSION)
        /\ attemptLog[i][2] >= Min2(originalHeight, MIN_IMAGE_DIMENSION)
        /\ attemptLog[i][1] <= maxImageDimension
        /\ attemptLog[i][2] <= maxImageDimension
\* The lower bound alone, and the upper bound when MAX_IMAGE_DIMENSION is not
\* below MIN_IMAGE_DIMENSION.
BoxAtLeastFloor ==
    \A i \in 1..Len(attemptLog) :
        /\ attemptLog[i][1] >= Min2(originalWidth, MIN_IMAGE_DIMENSION)
        /\ attemptLog[i][2] >= Min2(originalHeight, MIN_IMAGE_DIMENSION)
        /\ maxImageDimension >= MIN_IMAGE_DIMENSION =>
                /\ attemptLog[i][1] <= maxImageDimension
                /\ attemptLog[i][2] <= maxImageDimension

\* ---------------------------------------------------------------------------
\* Later calls of resolveModelIdentifier and the cache.

\* Calls that have passed the cache test.
StartedCalls == {c \in Calls : resPc[c] # "idle"}
\* Writes of the cache for the source of call c made before c tested it.
EarlierWritesFor(c) ==
    {i \in 1..resSeen[c] : cacheLog[i].source = resSource[c]}

\* C31: once a call has succeeded for a configuration value, every later call
\* with that value returns the identifier of that success without a lookup,
\* whatever other calls happened in between.
C31_LaterCallsNeverResolveAgain ==
    \A c \in StartedCalls :
        EarlierWritesFor(c) # {} =>
            /\ resFetches[c] = 0
            /\ resPc[c] = "returned"
            /\ \A i \in EarlierWritesFor(c) :
                    resResult[c] = cacheLog[i].identifier
\* C31, amended: a call that finds the cache holding its own configuration
\* value, that is, the latest write before its test was made for that value,
\* returns the identifier of that write without a lookup and without
\* writing; and a call for a value that needs a lookup returns without one
\* only in that case.
C31_CachedValueServedWhileHeld ==
    \A c \in StartedCalls :
        /\ (resSeen[c] > 0 /\ cacheLog[resSeen[c]].source = resSource[c]) =>
                /\ resPc[c] = "returned"
                /\ resFetches[c] = 0
                /\ resWroteAt[c] = 0
                /\ resResult[c] = cacheLog[resSeen[c]].identifier
        /\ (resPc[c] = "returned" /\ resFetches[c] = 0
            /\ ~Pinned(resSource[c])) =>
                /\ resSeen[c] > 0
                /\ cacheLog[resSeen[c]].source = resSource[c]
C31_Witness ==
    \E c \in Calls :
        /\ resPc[c] = "returned"
        /\ resSource[c] = "acme/sd"
        /\ resFetches[c] = 0
        /\ resSeen[c] = 2
        /\ cacheLog[1].source = "acme/sd"
        /\ cacheLog[2].source = "acme/sd"
        /\ cacheLog[1].identifier # cacheLog[2].identifier
        /\ resResult[c] = cacheLog[2].identifier
\* The cache holds one entry: a success for another value in between makes
\* the next call for the first value look it up again.
ResolvedAgainAfterDisplacement ==
    \E c \in Calls :
        /\ resPc[c] = "returned"
        /\ resSource[c] = "acme/sd"
        /\ resFetches[c] = 1
        /\ resSeen[c] = 2
        /\ cacheLog[1].source = "acme/sd"
        /\ cacheLog[2].source = "bytedance/seedream-4"

\* ---------------------------------------------------------------------------
\* EXIF orientation and the target box.

\* Pixel size of the first encode of a picture stored upright, w x h.
UprightWidth(w, h, maxDim) ==
    ResizedWidth(w, h, InitialTarget(w, w, h, maxDim),
                 InitialTarget(h, w, h, maxDim))
UprightHeight(w, h, maxDim) ==
    ResizedHeight(w, h, InitialTarget(w, w, h, maxDim),
                  InitialTarget(h, w, h, maxDim))

\* The first encode of a source whose metadata carries both sides.
FirstEncodeDone ==
    /\ Len(attemptLog) = 1
    /\ srcWidth > 0
    /\ srcHeight > 0

\* C32: orientation is normalized before resizing and the dimension budget
\* applies to the displayed orientation: the first encode of a source has the
\* pixel size the same picture stored already rotated would get, and a
\* displayed picture within MAX_IMAGE_DIMENSION on both sides keeps its size.
C32_BudgetAppliesToDisplayedOrientation ==
    FirstEncodeDone =>
        LET w == DisplayedWidth(srcWidth, srcHeight, srcRotated)
            h == DisplayedHeight(srcWidth, srcHeight, srcRotated)
        IN  /\ outputWidth = UprightWidth(w, h, maxImageDimension)
            /\ outputHeight = UprightHeight(w, h, maxImageDimension)
            /\ (w <= maxImageDimension /\ h <= maxImageDimension) =>
                    outputWidth = w /\ outputHeight = h
\* For a source stored upright the same statement holds.
UprightSourceKeepsBudget ==
    (FirstEncodeDone /\ ~srcRotated) =>
        /\ outputWidth = UprightWidth(srcWidth, srcHeight, maxImageDimension)
        /\ outputHeight = UprightHeight(srcWidth, srcHeight, maxImageDimension)
        /\ (srcWidth <= maxImageDimension /\ srcHeight <= maxImageDimension) =>
                outputWidth = srcWidth /\ outputHeight = srcHeight
\* A 300 x 200 file displayed as 200 x 300 is returned as 133 x 200.
RotatedSourceShrunk ==
    /\ normPc = "returned"
    /\ srcRotated
    /\ srcWidth = 300
    /\ srcHeight = 200
    /\ maxImageDimension = DefaultMaxImageDimension
    /\ attemptLog = <<<<300, 200, 90>>>>
    /\ outputWidth = 133
    /\ outputHeight = 200

\* ---------------------------------------------------------------------------
\* The 30 s abort of the calls to the Grok API.

\* The request was aborted by its timer.
Aborted ==
    \E i \in 1..Len(apiEffects) : apiEffects[i] = "abort"

\* C33: every prompt-enhancement and blueprint-generation call to the
\* provider is bounded by a 30 s abort: no call is pending more than
\* GrokTimeoutMs after it started, a call the provider has not answered by
\* then is aborted and the request answered with an error, an abort happens
\* only then, and every pending call leads to a response.
C33_GrokCallAbortedAfterThirtySeconds ==
    /\ [](apiPc = "grok" => grokElapsed <= GrokTimeoutMs)
    /\ [](Aborted => /\ apiPc = "responded"
                     /\ apiStatus = 500
                     /\ apiError # Undefined
                     /\ grokElapsed = GrokTimeoutMs)
    /\ [](apiPc = "responded" => grokElapsed <= GrokTimeoutMs)
    /\ (apiPc = "grok") ~> (apiPc = "responded")
C33_Witness ==
    /\ Aborted
    /\ apiRuntime = "express"
    /\ apiRoute = "advanced-blueprints"
    /\ apiStatus = 500
    /\ apiError = "Grok API request timed out"
    /\ grokElapsed = GrokTimeoutMs

\* ---------------------------------------------------------------------------
\* The declared MIME type.

\* C34: the result of normalizeImageBuffer does not depend on the declared
\* MIME type: two calls on the same buffer with different declared types
\* that got the same codec answers have made the same attempts and ended in
\* the same outcome, and the content type of every result is image/webp.
C34_DeclaredTypeIsIgnored ==
    /\ \A c \in TwinCalls : \A d \in TwinCalls :
        (twinMime[c] # twinMime[d]
         /\ twinCall[c].pc \notin {"off", "idle"}
         /\ twinCall[d].pc \notin {"off", "idle"}
         /\ twinCall[c].codecLog = twinCall[d].codecLog) =>
            /\ twinCall[c].pc = twinCall[d].pc
            /\ twinCall[c].attemptLog = twinCall[d].attemptLog
            /\ twinCall[c].outcome = twinCall[d].outcome
    /\ \A c \in TwinCalls :
        twinCall[c].pc = "returned" => twinCall[c].outcome[4] = "image/webp"
    /\ normPc = "returned" => contentType = "image/webp"
C34_Witness ==
    /\ twinMime[1] = "image/jpeg"
    /\ twinMime[2] = "text/plain"
    /\ twinCall[1].pc = "returned"
    /\ twinCall[2].pc = "returned"
    /\ Len(twinCall[1].codecLog) = 2
    /\ twinCall[1].codecLog = twinCall[2].codecLog
    /\ twinCall[1].outcome = twinCall[2].outcome
    /\ twinCall[2].outcome[4] = "image/webp"

\* ---------------------------------------------------------------------------
\* The two cache variables as a pair.

\* The identifiers a successful call for the source can store.
StorableFor(source) ==
    IF Pinned(source) THEN {source} ELSE ResolvedFor(source)

\* C35: in every reachable state, interleaved calls for different
\* configuration values included, cachedModelIdentifier and cachedModelSource
\* are both unset, or the identifier is one resolved for exactly the cached
\* source: the two were stored together by one call for that source.
C35_CachedPairBelongsTogether ==
    \/ /\ cachedModelIdentifier = Undefined
       /\ cachedModelSource = Undefined
    \/ /\ cachedModelSource \in Sources
       /\ cachedModelIdentifier \in StorableFor(cachedModelSource)
       /\ \E i \in 1..Len(cacheLog) :
            /\ cacheLog[i].source = cachedModelSource
            /\ cacheLog[i].identifier = cachedModelIdentifier
C35_Witness ==
    /\ Len(cacheLog) = 2
    /\ cacheLog[1].source # cacheLog[2].source
    /\ cacheLog[1].seen = 0
    /\ cacheLog[2].seen = 0
    /\ \A c \in Calls : resFetches[c] > 0 /\ resWroteAt[c] > 0
    /\ cachedModelSource = cacheLog[2].source
    /\ cachedModelIdentifier = cacheLog[2].identifier

\* ---------------------------------------------------------------------------
\* Uploads stored by a Pages request that is answered with an error.

\* C36 (as claimed): a Pages /api/generate request that was answered with an
\* error status (413 for an oversized file, 501 for the fal provider, ...)
\* has written no object to the uploads bucket.
C36_NoUploadStoredOnError ==
    (runtime = "pages" /\ genPc = "responded" /\ httpStatus >= 400) =>
        bucketPuts = 0

\* What does hold: a request refused before the loop over the files
\* (401, 400) has written nothing, and every stored object is a file of
\* the request within the source limit.
RefusedBeforeLoopStoresNothing ==
    /\ (runtime = "pages" /\ genPc = "responded"
        /\ httpStatus \in {400, 401}) => bucketPuts = 0
    /\ bucketPuts = Len(references) \/ runtime # "pages"
    /\ runtime = "pages" =>
            \A i \in 1..Len(references) : ~PagesTooLarge(references[i].bytes)

\* A fal request answered 501 after its file was stored.
StoredThenNotImplemented ==
    /\ runtime = "pages"
    /\ genPc = "responded"
    /\ httpStatus = 501
    /\ bucketPuts = Len(files)
    /\ bucketPuts > 0

\* ---------------------------------------------------------------------------
\* The two versions of normalizeOutputUrls side by side.

\* C37 (as claimed): the Express normalizeOutputUrls and the Pages
\* normalizeOutputUrls return the same list for every input, objects with
\* more than one recognised key (url and images, say) included: what one
\* version returned is what the other returns for that input.
C37_BothVersionsReturnTheSameList ==
    UrlsDone =>
        /\ urlsResult = normalizeOutputUrls(urlsInput)
        /\ urlsResult = normalizeOutputUrlsServer(urlsInput)

\* What does hold: the versions agree on every input that is not an object
\* with a url key next to an array key, or with both array keys.
VersionsAgreeOnOneKey ==
    (UrlsDone /\ urlsInput \notin UrlMixed) =>
        /\ urlsResult = normalizeOutputUrls(urlsInput)
        /\ urlsResult = normalizeOutputUrlsServer(urlsInput)

\* {url: "a", images: ["b"]}: "a" for the Pages version, "b" for Express.
VersionsDisagree ==
    /\ UrlsDone
    /\ urlsImpl = "server"
    /\ urlsInput = JObj([url |-> JStr("a"), images |-> JArr(<<JStr("b")>>)])
    /\ urlsResult = <<JStr("b")>>
    /\ normalizeOutputUrls(urlsInput) = <<JStr("a")>>

\* ---------------------------------------------------------------------------
\* Failed calls of resolveModelIdentifier and the cache.

FailedCalls == {c \in Calls : resPc[c] = "thrown"}

\* The pair the cache held after the first n writes.
CacheAfter(n) ==
    IF n = 0 THEN <<Undefined, Undefined>>
    ELSE <<cacheLog[n].identifier, cacheLog[n].source>>

\* C38: a call of resolveModelIdentifier that fails (invalid slug, provider
\* error, no version id) leaves the cached identifier and source as they
\* were: the call has written nothing, the cache holds what the last write
\* of a successful call stored, and when no other call wrote since the
\* failed one tested the cache, exactly the pair it found.
C38_FailedCallLeavesCache ==
    \A c \in FailedCalls :
        /\ resWroteAt[c] = 0
        /\ resResult[c] = Undefined
        /\ <<cachedModelIdentifier, cachedModelSource>>
                = CacheAfter(Len(cacheLog))
        /\ Len(cacheLog) = resSeen[c] =>
                <<cachedModelIdentifier, cachedModelSource>>
                    = CacheAfter(resSeen[c])
C38_Witness ==
    \E c \in FailedCalls :
        /\ resFetches[c] = 2
        /\ resSeen[c] = 1
        /\ Len(cacheLog) = 1
        /\ cacheLog[1].source = "acme/sd"
        /\ resSource[c] = "bytedance/seedream-4"
        /\ cachedModelSource = "acme/sd"
        /\ cachedModelIdentifier = cacheLog[1].identifier

----------------------------------------------------------------------------
(* The fal.ai branch of the Express /api/generate handler                  *)
(* (server/index.js lines 1337-1400): the request built from the           *)
(* references and the requested number of images.                          *)

\* Files sent with a request in the model.
MaxUploadedFiles == 13

\* multer limits.files
MulterFileLimit == 12

\* Reference images and generated images of one Seedream edit request.
FalImageTotal == 15

\* coerceNumber(req.body?.max_images): an integer, or null.
MaxImagesInputs == {JNull} \cup {JNum(n) : n \in {-1, 0, 1, 2, 5, 6, 15, 16, 40}}

\* coerceString(req.body?.sequential_image_generation)
SequentialInputs == {"auto", "disabled", ""}

NoFalInput == [num_images |-> 0, max_images |-> JNull, image_urls |-> <<>>]

FalOff ==
    /\ falPc = "off"
    /\ falFiles = 0
    /\ falSequential = ""
    /\ falMaxImages = JNull
    /\ falReferences = <<>>
    /\ falInput = NoFalInput

FalInit ==
    /\ falPc = "received"
    /\ falFiles \in 0..MaxUploadedFiles
    /\ falSequential \in SequentialInputs
    /\ falMaxImages \in MaxImagesInputs
    /\ falReferences = <<>>
    /\ falInput = NoFalInput

\* isSequentialAuto && maxImages && maxImages > 1 ? Math.min(maxImages, 15) : 1
RequestedImages(sequentialSetting, maxImages) ==
    IF sequentialSetting = "auto" /\ Truthy(maxImages) /\ maxImages.v > 1
    THEN Min2(maxImages.v, FalImageTotal)
    ELSE 1

\* Math.max(1, 15 - Math.min(falReferenceCount, 15))
MaxGeneratedImages(falReferenceCount) ==
    Max2(1, FalImageTotal - Min2(falReferenceCount, FalImageTotal))

\* Faulty variant: the requested number is taken as it is.
AllowedGeneratedImages_Requested(requestedImages, maxGeneratedImages) ==
    requestedImages
\* Math.min(requestedImages, maxGeneratedImages)
AllowedGeneratedImages(requestedImages, maxGeneratedImages) ==
    Min2(requestedImages, maxGeneratedImages)

\* multer and the tests before the loop, then the loop over the files: one
\* reference per file, or the handler ends on a file that cannot be
\* normalized.
FalReceive ==
    /\ falPc = "received"
    /\ IF falFiles > MulterFileLimit \/ falFiles = 0
       THEN /\ falPc' = "refused"
            /\ UNCHANGED falReferences
       ELSE \/ /\ falPc' = "references"
               /\ falReferences' = [i \in 1..falFiles |-> i]
            \/ /\ falPc' = "failed"
               /\ UNCHANGED falReferences
    /\ UNCHANGED <<falFiles, falSequential, falMaxImages, falInput>>

\* Lines 1338-1359: ensureFal(), then falInput without its image_urls.
FalBuild ==
    /\ falPc = "references"
    /\ \/ LET referencesForFal == LastN(falReferences, MaxFalReferences)
              allowedGeneratedImages ==
                  AllowedGeneratedImages(
                      RequestedImages(falSequential, falMaxImages),
                      MaxGeneratedImages(Len(referencesForFal)))
          IN  /\ falInput' =
                    [num_images |-> allowedGeneratedImages,
                     max_images |-> IF allowedGeneratedImages > 1
                                    THEN JNum(allowedGeneratedImages)
                                    ELSE JNull,
                     image_urls |-> <<>>]
              /\ falPc' = "built"
       \/ \* ensureFal throws: FAL_KEY is not configured
          /\ falPc' = "failed"
          /\ UNCHANGED falInput
    /\ UNCHANGED <<falFiles, falSequential, falMaxImages, falReferences>>

\* Lines 1361-1387: the references are uploaded, their URLs are added and
\* the request is sent; or an upload fails and the catch answers.
FalUpload ==
    /\ falPc = "built"
    /\ \/ /\ falInput' = [falInput EXCEPT !.image_urls =
                            LastN(falReferences, MaxFalReferences)]
          /\ falPc' = "sent"
       \/ /\ falPc' = "failed"
          /\ UNCHANGED falInput
    /\ UNCHANGED <<falFiles, falSequential, falMaxImages, falReferences>>

\* ---------------------------------------------------------------------------
\* Properties of the fal.ai request.

\* C39: every fal.ai request built by the Express /api/generate handler
\* carries at most 10 reference images and asks for at least 1 image, and
\* references plus num_images is at most 15, for every number of uploaded
\* files and every requested max_images.
C39_FalRequestWithinLimits ==
    falPc \in {"built", "sent"} =>
        /\ Len(falInput.image_urls) <= 10
        /\ Len(LastN(falReferences, MaxFalReferences)) <= 10
        /\ falInput.num_images >= 1
        /\ Len(LastN(falReferences, MaxFalReferences))
                + falInput.num_images <= 15
        /\ Truthy(falInput.max_images) =>
                falInput.max_images.v = falInput.num_images
C39_Witness ==
    /\ falPc = "sent"
    /\ falFiles = 12
    /\ falMaxImages = JNum(40)
    /\ Len(falInput.image_urls) = 10
    /\ falInput.num_images = 5

----------------------------------------------------------------------------

Init ==
    \/ PollInit /\ NormOff /\ GenOff /\ ApiOff /\ UrlsOff /\ ResOff
       /\ ClientOff /\ TwinOff /\ FalOff
    \/ PollOff /\ NormInit /\ GenOff /\ ApiOff /\ UrlsOff /\ ResOff
       /\ ClientOff /\ TwinOff /\ FalOff
    \/ PollOff /\ NormOff /\ GenInit /\ ApiOff /\ UrlsOff /\ ResOff
       /\ ClientOff /\ TwinOff /\ FalOff
    \/ PollOff /\ NormOff /\ GenOff /\ ApiInit /\ UrlsOff /\ ResOff
       /\ ClientOff /\ TwinOff /\ FalOff
    \/ PollOff /\ NormOff /\ GenOff /\ ApiOff /\ UrlsInit /\ ResOff
       /\ ClientOff /\ TwinOff /\ FalOff
    \/ PollOff /\ NormOff /\ GenOff /\ ApiOff /\ UrlsOff /\ ResInit
       /\ ClientOff /\ TwinOff /\ FalOff
    \/ PollOff /\ NormOff /\ GenOff /\ ApiOff /\ UrlsOff /\ ResOff
       /\ ClientInit /\ TwinOff /\ FalOff
    \/ PollOff /\ NormOff /\ GenOff /\ ApiOff /\ UrlsOff /\ ResOff
       /\ ClientOff /\ TwinInit /\ FalOff
    \/ PollOff /\ NormOff /\ GenOff /\ ApiOff /\ UrlsOff /\ ResOff
       /\ ClientOff /\ TwinOff /\ FalInit

Next ==
    \/ Submit
       /\ UNCHANGED <<normVars, genVars, apiVars, urlsVars, resVars, cliVars, twinVars, falVars>>
    \/ Sleep
       /\ UNCHANGED <<normVars, genVars, apiVars, urlsVars, resVars, cliVars, twinVars, falVars>>
    \/ StatusCheck
       /\ UNCHANGED <<normVars, genVars, apiVars, urlsVars, resVars, cliVars, twinVars, falVars>>
    \/ AfterLoop
       /\ UNCHANGED <<normVars, genVars, apiVars, urlsVars, resVars, cliVars, twinVars, falVars>>
    \/ NormMetadata
       /\ UNCHANGED <<pollVars, genVars, apiVars, urlsVars, resVars, cliVars, twinVars, falVars>>
    \/ NormAttempt
       /\ UNCHANGED <<pollVars, genVars, apiVars, urlsVars, resVars, cliVars, twinVars, falVars>>
    \/ NormEncodeFails
       /\ UNCHANGED <<pollVars, genVars, apiVars, urlsVars, resVars, cliVars, twinVars, falVars>>
    \/ NormExhausted
       /\ UNCHANGED <<pollVars, genVars, apiVars, urlsVars, resVars, cliVars, twinVars, falVars>>
    \/ NormAgain
       /\ UNCHANGED <<pollVars, genVars, apiVars, urlsVars, resVars, cliVars, twinVars, falVars>>
    \/ ExpressReceive
       /\ UNCHANGED <<pollVars, apiVars, urlsVars, resVars, cliVars, twinVars, falVars>>
    \/ ExpressNormalizeCall
       /\ UNCHANGED <<pollVars, apiVars, urlsVars, resVars, cliVars, twinVars, falVars>>
    \/ ExpressNormalizeDone
       /\ UNCHANGED <<pollVars, apiVars, urlsVars, resVars, cliVars, twinVars, falVars>>
    \/ ExpressNormalizeFailed
       /\ UNCHANGED <<pollVars, apiVars, urlsVars, resVars, cliVars, twinVars, falVars>>
    \/ ExpressDispatch
       /\ UNCHANGED <<pollVars, apiVars, urlsVars, resVars, cliVars, twinVars, falVars>>
    \/ PagesReceive
       /\ UNCHANGED <<pollVars, apiVars, urlsVars, resVars, cliVars, twinVars, falVars>>
    \/ PagesFile
       /\ UNCHANGED <<pollVars, apiVars, urlsVars, resVars, cliVars, twinVars, falVars>>
    \/ PagesDispatch
       /\ UNCHANGED <<pollVars, apiVars, urlsVars, resVars, cliVars, twinVars, falVars>>
    \/ PagesDemoRun
       /\ UNCHANGED <<pollVars, normVars, genVars, urlsVars, resVars, cliVars, twinVars, falVars>>
    \/ PagesSettingsGet
       /\ UNCHANGED <<pollVars, normVars, genVars, urlsVars, resVars, cliVars, twinVars, falVars>>
    \/ PagesSettingsPut
       /\ UNCHANGED <<pollVars, normVars, genVars, urlsVars, resVars, cliVars, twinVars, falVars>>
    \/ PagesEnhancePrompt
       /\ UNCHANGED <<pollVars, normVars, genVars, urlsVars, resVars, cliVars, twinVars, falVars>>
    \/ PagesAdvancedBlueprints
       /\ UNCHANGED <<pollVars, normVars, genVars, urlsVars, resVars, cliVars, twinVars, falVars>>
    \/ ExpressEnhancePrompt
       /\ UNCHANGED <<pollVars, normVars, genVars, urlsVars, resVars, cliVars, twinVars, falVars>>
    \/ ExpressAdvancedBlueprints
       /\ UNCHANGED <<pollVars, normVars, genVars, urlsVars, resVars, cliVars, twinVars, falVars>>
    \/ GrokTick
       /\ UNCHANGED <<pollVars, normVars, genVars, urlsVars, resVars, cliVars, twinVars, falVars>>
    \/ GrokAnswers
       /\ UNCHANGED <<pollVars, normVars, genVars, urlsVars, resVars, cliVars, twinVars, falVars>>
    \/ GrokTimeout
       /\ UNCHANGED <<pollVars, normVars, genVars, urlsVars, resVars, cliVars, twinVars, falVars>>
    \/ PagesImportImage
       /\ UNCHANGED <<pollVars, genVars, urlsVars, resVars, cliVars, twinVars, falVars>>
    \/ ExpressImportImage
       /\ UNCHANGED <<pollVars, genVars, urlsVars, resVars, cliVars, twinVars, falVars>>
    \/ ExpressImportNormalized
       /\ UNCHANGED <<pollVars, genVars, urlsVars, resVars, cliVars, twinVars, falVars>>
    \/ ExpressImportNormalizeFailed
       /\ UNCHANGED <<pollVars, genVars, urlsVars, resVars, cliVars, twinVars, falVars>>
    \/ NormalizeUrlsPages
       /\ UNCHANGED <<pollVars, normVars, genVars, apiVars, resVars, cliVars, twinVars, falVars>>
    \/ NormalizeUrlsServer
       /\ UNCHANGED <<pollVars, normVars, genVars, apiVars, resVars, cliVars, twinVars, falVars>>
    \/ ResolveStartAny
       /\ UNCHANGED <<pollVars, normVars, genVars, apiVars, urlsVars, cliVars, twinVars, falVars>>
    \/ ResolveModelAny
       /\ UNCHANGED <<pollVars, normVars, genVars, apiVars, urlsVars, cliVars, twinVars, falVars>>
    \/ ResolveVersionsAny
       /\ UNCHANGED <<pollVars, normVars, genVars, apiVars, urlsVars, cliVars, twinVars, falVars>>
    \/ HandleFileChange
       /\ UNCHANGED <<pollVars, normVars, genVars, apiVars, urlsVars, resVars, twinVars, falVars>>
    \/ HandleDrop
       /\ UNCHANGED <<pollVars, normVars, genVars, apiVars, urlsVars, resVars, twinVars, falVars>>
    \/ HandleSaveCharacter
       /\ UNCHANGED <<pollVars, normVars, genVars, apiVars, urlsVars, resVars, twinVars, falVars>>
    \/ HandleUseCharacter
       /\ UNCHANGED <<pollVars, normVars, genVars, apiVars, urlsVars, resVars, twinVars, falVars>>
    \/ RemoveImage
       /\ UNCHANGED <<pollVars, normVars, genVars, apiVars, urlsVars, resVars, twinVars, falVars>>
    \/ ImportResultAsReference
       /\ UNCHANGED <<pollVars, normVars, genVars, apiVars, urlsVars, resVars, twinVars, falVars>>
    \/ HandleImportFromUrl
       /\ UNCHANGED <<pollVars, normVars, genVars, apiVars, urlsVars, resVars, twinVars, falVars>>
    \/ RunGeneration
       /\ UNCHANGED <<pollVars, normVars, genVars, apiVars, urlsVars, resVars, twinVars, falVars>>
    \/ TwinStartAny
       /\ UNCHANGED <<pollVars, normVars, genVars, apiVars, urlsVars, resVars, cliVars, falVars>>
    \/ TwinAttemptAny
       /\ UNCHANGED <<pollVars, normVars, genVars, apiVars, urlsVars, resVars, cliVars, falVars>>
    \/ FalReceive
       /\ UNCHANGED <<pollVars, normVars, genVars, apiVars, urlsVars, resVars, cliVars, twinVars>>
    \/ FalBuild
       /\ UNCHANGED <<pollVars, normVars, genVars, apiVars, urlsVars, resVars, cliVars, twinVars>>
    \/ FalUpload
       /\ UNCHANGED <<pollVars, normVars, genVars, apiVars, urlsVars, resVars, cliVars, twinVars>>

Spec == Init /\ [][Next]_vars

\* Every awaited promise settles (each HTTP call completes, each timer
\* fires), so a call that can take a step eventually takes one.
FairSpec == Spec /\ WF_vars(Next)

====
